---- MODULE Spec2Model ----
(***************************************************************************)
(* A model of changelog-cli (InstaLog): the JSON history store             *)
(* (src/db: setup, repositories, history, commits), the changelog          *)
(* generation pipeline (src/changelog.js, src/ai-summarizer.js) and the    *)
(* CLI run that ties them together (index.js).                             *)
(*                                                                         *)
(* Strings whose characters the code inspects (hashes, commit messages)    *)
(* are sequences of one-character strings; a document's content is the     *)
(* sequence of the pieces the code concatenates.  The clock counts         *)
(* half-days: DayTicks clock units make one day.                           *)
(***************************************************************************)
EXTENDS Integers, Sequences, FiniteSets, TLC

(***************************************************************************)
(* Bounds of the model.                                                    *)
(***************************************************************************)
MaxTime == 2
MaxHist == 2

(* 1000 * 60 * 60 * 24 ms, in clock units *)
DayTicks == 2

(* repository URLs, cut at the separators the code splits on *)
URLs ==
  { <<"https://github.com", "/", "o", "/", "a">>,
    <<"https://github.com", "/", "o", "/", "b", ".git">> }

(* null where the code holds a string (lastCommitHash) *)
Null == <<"null">>
(* null where the code holds an object *)
NullInfo == [null |-> TRUE]
(* a top-level key of the store document that is absent or not an array *)
NotArray == <<[notAnArray |-> TRUE]>>

(* arguments handed to saveChangelogGeneration with a URL: repoName, startDate
   and endDate as dates, lastCommitHash as '', a full hash, a short hash *)
GenerationArgs ==
  { [repoName |-> <<"a">>, startDate |-> <<"day 0">>, endDate |-> <<"day 0">>,
     lastCommitHash |-> <<>>],
    [repoName |-> <<"b">>, startDate |-> <<"day 0">>, endDate |-> <<"day 1">>,
     lastCommitHash |-> <<"a", "b", "c", "1", "2", "3", "4", "e">>],
    [repoName |-> <<"a">>, startDate |-> <<"day 1">>, endDate |-> <<"day 1">>,
     lastCommitHash |-> <<"d", "e", "f">>] }

(* the arguments used against a damaged file *)
EnvArgs == {a \in GenerationArgs : a.lastCommitHash = <<>>}

VARIABLES
  file,      \* the content of ~/.instalog/history.json
  now,       \* the clock, new Date()
  ret,       \* the last Store operation and what it returned
  lastCall,  \* per URL, the clock at the latest call that touched it (-1: none)
  env,       \* process.env.ANTHROPIC_API_KEY and ~/.anthropic_key
  gen,       \* the call of generateChangelog in progress: its position and locals
  log,       \* how often the forge, the rewriter, the model and a layout were called
  forge,     \* per URL, the commits of the repository on the forge, newest first
  run,       \* the run of the CLI in progress: its position and locals
  prompt,    \* the questions of a run: the one being asked, the answers so far
  changelogs, \* server.js: the changelogs the publishing server holds in memory
  saver      \* per process, its call of saveChangelogGeneration: position and locals

storeVars == <<file, now, ret, lastCall>>
genVars == <<env, gen, log>>
runVars == <<forge, run, prompt, changelogs, saver>>
vars == <<file, now, ret, lastCall, env, gen, log, forge, run, prompt, changelogs, saver>>

(***************************************************************************)
(* Strings.  A string is a sequence of atoms: a fixed piece of a template  *)
(* is one atom, a string whose characters the code inspects is a sequence  *)
(* of one-character atoms.  Concatenation is \o.                           *)
(***************************************************************************)
StartsWith(s, prefix) ==
  Len(s) >= Len(prefix) /\ SubSeq(s, 1, Len(prefix)) = prefix

EndsWith(s, suffix) ==
  Len(s) >= Len(suffix) /\ SubSeq(s, Len(s) - Len(suffix) + 1, Len(s)) = suffix

(* s.substring(from), from 0-based *)
Substring(s, from) == SubSeq(s, from + 1, Len(s))

RECURSIVE TrimLeft(_)
TrimLeft(s) ==
  IF s # <<>> /\ Head(s) \in {" ", "\t", "\r", "\n"} THEN TrimLeft(Tail(s)) ELSE s

RECURSIVE TrimRight(_)
TrimRight(s) ==
  IF s # <<>> /\ s[Len(s)] \in {" ", "\t", "\r", "\n"} THEN TrimRight(SubSeq(s, 1, Len(s) - 1)) ELSE s

(* s.trim() *)
Trim(s) == TrimRight(TrimLeft(s))

(* s.split(sep), sep one atom *)
RECURSIVE SplitFrom(_, _, _)
SplitFrom(s, sep, current) ==
  IF s = <<>> THEN <<current>>
  ELSE IF Head(s) = sep
       THEN <<current>> \o SplitFrom(Tail(s), sep, <<>>)
       ELSE SplitFrom(Tail(s), sep, Append(current, Head(s)))

Split(s, sep) == SplitFrom(s, sep, <<>>)

(* s.replace(piece, ''), piece one atom: the first occurrence is removed *)
RECURSIVE RemoveFirst(_, _)
RemoveFirst(s, piece) ==
  IF s = <<>> THEN <<>>
  ELSE IF Head(s) = piece THEN Tail(s)
       ELSE <<Head(s)>> \o RemoveFirst(Tail(s), piece)

(* the decimal digits a string starts with *)
RECURSIVE LeadingDigits(_)
LeadingDigits(s) ==
  IF s # <<>> /\ Head(s) \in {ToString(n) : n \in 0..9}
  THEN <<Head(s)>> \o LeadingDigits(Tail(s))
  ELSE <<>>

(* the number a string of decimal digits denotes *)
RECURSIVE DecimalValue(_)
DecimalValue(ds) ==
  IF ds = <<>> THEN 0
  ELSE 10 * DecimalValue(SubSeq(ds, 1, Len(ds) - 1))
         + (CHOOSE n \in 0..9 : ToString(n) = ds[Len(ds)])

(* date.toISOString().split('T')[0]: the day the clock value falls in *)
FormatDate(t) == <<"day " \o ToString(t \div DayTicks)>>

(* date.setDate(date.getDate() - days) *)
DaysBefore(t, days) == t - days * DayTicks

(* url.split('/').pop().replace('.git', '') *)
RepoNameOf(url) ==
  LET parts == Split(url, "/")
  IN  RemoveFirst(parts[Len(parts)], ".git")

(***************************************************************************)
(* Commits, as the forge delivers them:                                    *)
(* {sha, commit: {message, author: {name, date}}}.                         *)
(***************************************************************************)
Commit(sha, message, author, date) ==
  [sha |-> sha, message |-> message, author |-> author, date |-> date]

CommitPool ==
  { Commit(<<"a", "b", "c", "1", "2", "3", "4", "e">>, <<"f", "e", "a", "t", ":", " ", "a">>, <<"Ann">>, 0),
    Commit(<<"d", "e", "f", "5", "6", "7", "8", "f">>, <<"f", "i", "x", "(", "u", "i", ")", ":", " ", "b">>, <<"Bob">>, 1),
    Commit(<<"0", "1", "2", "3", "4", "5", "6", "a">>, <<"F", "e", "a", "t", ":", " ", "c">>, <<"Ann">>, 1),
    Commit(<<"f", "e", "d", "c", "b", "a", "9", "8">>, <<"w", "i", "p">>, <<"Cy">>, 0),
    Commit(<<"9", "9", "9", "9", "0", "0", "0", "0">>, <<"p", "e", "r", "f", ":", " ", "d">>, <<"Bob">>, 1),
    Commit(<<"7", "7", "7", "7", "1", "1", "1", "1">>,
           <<"B", "R", "E", "A", "K", "I", "N", "G", ":", " ", "e">>, <<"Cy">>, 1) }

MaxCommits == 2

(* the lists of at most MaxCommits distinct commits *)
CommitLists ==
  UNION { { s \in [1..n -> CommitPool] : \A i, j \in 1..n : i # j => s[i] # s[j] }
          : n \in 0..MaxCommits }

(* a 2xx response whose body is no array *)
MalformedBody == <<[notAnArray |-> TRUE]>>

IsArray(x) == x # MalformedBody

(***************************************************************************)
(* src/changelog.js: fetchCommits                                          *)
(***************************************************************************)
(* what axios.get ends with: a response carrying a body, or one of the three
   kinds of error fetchCommits tells apart *)
FetchOutcomes ==
  { [kind |-> "ok", data |-> c] : c \in CommitLists \cup {MalformedBody} }
    \cup { [kind |-> "status"], [kind |-> "no response"], [kind |-> "other"] }

FetchErrorMessage(outcome) ==
  <<"Error fetching commits from GitHub">> \o
    ( IF outcome.kind = "status" THEN <<": ", "404", " - ", "Not Found">>
      ELSE IF outcome.kind = "no response" THEN <<": No response received from server">>
      ELSE <<": ", "getaddrinfo ENOTFOUND api.github.com">> )

(***************************************************************************)
(* src/changelog.js: the two layouts                                       *)
(***************************************************************************)
WordChars ==
  { "a", "b", "c", "d", "e", "f", "g", "h", "i", "j", "k", "l", "m", "n", "o", "p",
    "q", "r", "s", "t", "u", "v", "w", "x", "y", "z",
    "A", "B", "C", "D", "E", "F", "G", "H", "I", "J", "K", "L", "M", "N", "O", "P",
    "Q", "R", "S", "T", "U", "V", "W", "X", "Y", "Z",
    "0", "1", "2", "3", "4", "5", "6", "7", "8", "9", "_" }

Lower ==
  [c \in {"A", "B", "C", "D", "E", "F", "G", "H", "I", "J", "K", "L", "M", "N", "O",
          "P", "Q", "R", "S", "T", "U", "V", "W", "X", "Y", "Z"} |->
     CASE c = "A" -> "a" [] c = "B" -> "b" [] c = "C" -> "c" [] c = "D" -> "d"
       [] c = "E" -> "e" [] c = "F" -> "f" [] c = "G" -> "g" [] c = "H" -> "h"
       [] c = "I" -> "i" [] c = "J" -> "j" [] c = "K" -> "k" [] c = "L" -> "l"
       [] c = "M" -> "m" [] c = "N" -> "n" [] c = "O" -> "o" [] c = "P" -> "p"
       [] c = "Q" -> "q" [] c = "R" -> "r" [] c = "S" -> "s" [] c = "T" -> "t"
       [] c = "U" -> "u" [] c = "V" -> "v" [] c = "W" -> "w" [] c = "X" -> "x"
       [] c = "Y" -> "y" [] c = "Z" -> "z"]

LowerChar(c) == IF c \in DOMAIN Lower THEN Lower[c] ELSE c

UpperChar(c) ==
  IF \E u \in DOMAIN Lower : Lower[u] = c
  THEN CHOOSE u \in DOMAIN Lower : Lower[u] = c
  ELSE c

(* s.toLowerCase() *)
ToLowerCase(s) == [i \in 1..Len(s) |-> LowerChar(s[i])]

(* the length of the longest prefix of s made of characters of the set *)
RECURSIVE PrefixLen(_, _)
PrefixLen(s, chars) ==
  IF s # <<>> /\ Head(s) \in chars THEN 1 + PrefixLen(Tail(s), chars) ELSE 0

(* the length of the longest prefix of s free of the character c *)
RECURSIVE PrefixLenExcept(_, _)
PrefixLenExcept(s, c) ==
  IF s # <<>> /\ Head(s) # c THEN 1 + PrefixLenExcept(Tail(s), c) ELSE 0

(* the length of a match of (\([^)]+\))? at the head of s followed by ':',
   the ':' included; 0 when there is none *)
ScopeColonLen(s) ==
  IF s # <<>> /\ Head(s) = ":" THEN 1
  ELSE IF s # <<>> /\ Head(s) = "("
       THEN LET inner == PrefixLenExcept(Tail(s), ")")
            IN  IF /\ inner >= 1
                   /\ Len(s) >= inner + 3
                   /\ s[inner + 2] = ")"
                   /\ s[inner + 3] = ":"
                THEN inner + 3
                ELSE 0
       ELSE 0

(* message.match(/^(\w+)(\([^)]+\))?:/): capture group 1, or <<>> for no match *)
MatchType(message) ==
  LET w == PrefixLen(message, WordChars)
  IN  IF w >= 1 /\ ScopeColonLen(Substring(message, w)) > 0
      THEN SubSeq(message, 1, w)
      ELSE <<>>

(* the type groupCommitsByType files a commit under *)
TypeOf(commit) ==
  IF MatchType(commit.message) # <<>> THEN MatchType(commit.message) ELSE <<"o", "t", "h", "e", "r">>

(* the keys of types in order of insertion *)
RECURSIVE TypesFrom(_, _)
TypesFrom(commits, seen) ==
  IF commits = <<>> THEN seen
  ELSE IF \E i \in 1..Len(seen) : seen[i] = TypeOf(Head(commits))
       THEN TypesFrom(Tail(commits), seen)
       ELSE TypesFrom(Tail(commits), Append(seen, TypeOf(Head(commits))))

(* types = {} inherits from Object.prototype: for a type that names one of
   its members, !types[type] is false and types[type].push is no function *)
groupCommitsByTypeThrows(commits) ==
  \E i \in 1..Len(commits) :
    TypeOf(commits[i]) \in
    { <<"c", "o", "n", "s", "t", "r", "u", "c", "t", "o", "r">>,
      <<"h", "a", "s", "O", "w", "n", "P", "r", "o", "p", "e", "r", "t", "y">>,
      <<"i", "s", "P", "r", "o", "t", "o", "t", "y", "p", "e", "O", "f">>,
      <<"p", "r", "o", "p", "e", "r", "t", "y", "I", "s", "E", "n", "u", "m", "e", "r", "a", "b", "l", "e">>,
      <<"t", "o", "L", "o", "c", "a", "l", "e", "S", "t", "r", "i", "n", "g">>,
      <<"t", "o", "S", "t", "r", "i", "n", "g">>,
      <<"v", "a", "l", "u", "e", "O", "f">>,
      <<"_", "_", "p", "r", "o", "t", "o", "_", "_">>,
      <<"_", "_", "d", "e", "f", "i", "n", "e", "G", "e", "t", "t", "e", "r", "_", "_">>,
      <<"_", "_", "d", "e", "f", "i", "n", "e", "S", "e", "t", "t", "e", "r", "_", "_">>,
      <<"_", "_", "l", "o", "o", "k", "u", "p", "G", "e", "t", "t", "e", "r", "_", "_">>,
      <<"_", "_", "l", "o", "o", "k", "u", "p", "S", "e", "t", "t", "e", "r", "_", "_">> }

(* the groups in the order of Object.keys(commitsByType): the keys that are
   array indices in ascending order, then the others in order of insertion *)
groupCommitsByType(commits) ==
  LET inserted == TypesFrom(commits, <<>>)
      IsIndex(t) == LeadingDigits(t) = t /\ (Len(t) = 1 \/ Head(t) # "0")
      IsName(t) == ~IsIndex(t)
      indices == SelectSeq(inserted, IsIndex)
      Before(t) == {j \in 1..Len(indices) : DecimalValue(indices[j]) < DecimalValue(t)}
      ascending == [i \in 1..Len(indices) |->
                      CHOOSE t \in {indices[j] : j \in 1..Len(indices)} :
                        Cardinality(Before(t)) = i - 1]
      types == ascending \o SelectSeq(inserted, IsName)
      OfType(t) == LET Is(c) == TypeOf(c) = t IN SelectSeq(commits, Is)
  IN  [i \in 1..Len(types) |-> [type |-> types[i], commits |-> OfType(types[i])]]

formatCommitType(type) ==
  CASE type = <<"f", "e", "a", "t">> -> <<"Features">>
    [] type = <<"f", "i", "x">> -> <<"Bug Fixes">>
    [] type = <<"d", "o", "c", "s">> -> <<"Documentation">>
    [] type = <<"s", "t", "y", "l", "e">> -> <<"Style Improvements">>
    [] type = <<"r", "e", "f", "a", "c", "t", "o", "r">> -> <<"Code Refactoring">>
    [] type = <<"p", "e", "r", "f">> -> <<"Performance Improvements">>
    [] type = <<"t", "e", "s", "t">> -> <<"Tests">>
    [] type = <<"b", "u", "i", "l", "d">> -> <<"Build System">>
    [] type = <<"c", "i">> -> <<"CI/CD">>
    [] type = <<"c", "h", "o", "r", "e">> -> <<"Chores">>
    [] type = <<"o", "t", "h", "e", "r">> -> <<"Other Changes">>
    [] OTHER -> <<UpperChar(Head(type))>> \o Tail(type)

(* the length of the short form of a hash *)
ShortSha == 7

(* sha.substring(0, 7) *)
ShortHash(sha) == SubSeq(sha, 1, IF Len(sha) < ShortSha THEN Len(sha) ELSE ShortSha)

RECURSIVE Concat(_)
Concat(pieces) == IF pieces = <<>> THEN <<>> ELSE Head(pieces) \o Concat(Tail(pieces))

InternalEntry(commit) ==
  <<"- **">> \o ShortHash(commit.sha) \o <<"** ">> \o commit.message
    \o <<" (">> \o commit.author \o <<", ">> \o FormatDate(commit.date) \o <<")", "\n">>

InternalSection(group) ==
  <<"## ">> \o formatCommitType(group.type) \o <<"\n", "\n">>
    \o Concat([i \in 1..Len(group.commits) |-> InternalEntry(group.commits[i])])
    \o <<"\n">>

generateInternalChangelog(repoName, commits, dateRange) ==
  LET commitsByType == groupCommitsByType(commits)
  IN  <<"# Changelog: ">> \o repoName \o <<"\n", "\n">>
        \o <<"**Date Range:** ">> \o dateRange \o <<"\n", "\n">>
        \o Concat([i \in 1..Len(commitsByType) |-> InternalSection(commitsByType[i])])

(* startsWith(keyword) on the message as written *)
MessageStartsWith_CaseSensitive(commit, keyword) == StartsWith(commit.message, keyword)

(* message.toLowerCase().startsWith(keyword) *)
MessageStartsWith(commit, keyword) == StartsWith(ToLowerCase(commit.message), keyword)

(* the filter with its result in reverse order *)
Bucket_Reversed(commits, keyword) ==
  LET In(c) == MessageStartsWith(c, keyword)
      kept == SelectSeq(commits, In)
  IN  [i \in 1..Len(kept) |-> kept[Len(kept) + 1 - i]]

(* commits.filter(commit => message.toLowerCase().startsWith(keyword)) *)
Bucket(commits, keyword) ==
  LET In(c) == MessageStartsWith(c, keyword) IN SelectSeq(commits, In)

RECURSIVE SkipSpaces(_)
SkipSpaces(s) == IF s # <<>> /\ Head(s) \in {" ", "\t", "\r", "\n"} THEN SkipSpaces(Tail(s)) ELSE s

(* message.replace(/^keyword(\([^)]+\))?:\s*/i, '') *)
StripPrefix(message, keyword) ==
  IF /\ StartsWith(ToLowerCase(message), keyword)
     /\ ScopeColonLen(Substring(message, Len(keyword))) > 0
  THEN SkipSpaces(Substring(message,
                            Len(keyword) + ScopeColonLen(Substring(message, Len(keyword)))))
  ELSE message

(* ExternalSection with the short hash ahead of each message *)
ExternalSection_WithHash(heading, bucket, keyword) ==
  IF bucket = <<>> THEN <<>>
  ELSE <<"## ">> \o heading \o <<"\n", "\n">>
         \o Concat([i \in 1..Len(bucket) |->
                      <<"- ">> \o ShortHash(bucket[i].sha) \o <<" ">>
                        \o StripPrefix(bucket[i].message, keyword) \o <<"\n">>])
         \o <<"\n">>

ExternalSection(heading, bucket, keyword) ==
  IF bucket = <<>> THEN <<>>
  ELSE <<"## ">> \o heading \o <<"\n", "\n">>
         \o Concat([i \in 1..Len(bucket) |->
                      <<"- ">> \o StripPrefix(bucket[i].message, keyword) \o <<"\n">>])
         \o <<"\n">>

(* generateExternalChangelog with the fixes ahead of the breaking changes *)
generateExternalChangelog_FixesFirst(repoName, commits, dateRange) ==
  LET Relevant(c) == \/ MessageStartsWith(c, <<"f", "e", "a", "t">>)
                     \/ MessageStartsWith(c, <<"f", "i", "x">>)
                     \/ MessageStartsWith(c, <<"p", "e", "r", "f">>)
                     \/ MessageStartsWith(c, <<"b", "r", "e", "a", "k", "i", "n", "g">>)
      userRelevantCommits == SelectSeq(commits, Relevant)
      features == Bucket(userRelevantCommits, <<"f", "e", "a", "t">>)
      fixes == Bucket(userRelevantCommits, <<"f", "i", "x">>)
      performance == Bucket(userRelevantCommits, <<"p", "e", "r", "f">>)
      breaking == Bucket(userRelevantCommits, <<"b", "r", "e", "a", "k", "i", "n", "g">>)
  IN  <<"# ">> \o repoName \o <<" - Changelog", "\n", "\n">>
        \o <<"**">> \o dateRange \o <<"**", "\n", "\n">>
        \o ExternalSection(<<"(sparkles)", " ", "New Features">>, features, <<"f", "e", "a", "t">>)
        \o ExternalSection(<<"(bug)", " ", "Bug Fixes">>, fixes, <<"f", "i", "x">>)
        \o ExternalSection(<<"(warning)", " ", "Breaking Changes">>, breaking, <<"b", "r", "e", "a", "k", "i", "n", "g">>)
        \o ExternalSection(<<"(zap)", " ", "Performance Improvements">>, performance, <<"p", "e", "r", "f">>)

(* the four sections, each only when its bucket holds a commit *)
generateExternalChangelog(repoName, commits, dateRange) ==
  LET Relevant(c) == \/ MessageStartsWith(c, <<"f", "e", "a", "t">>)
                     \/ MessageStartsWith(c, <<"f", "i", "x">>)
                     \/ MessageStartsWith(c, <<"p", "e", "r", "f">>)
                     \/ MessageStartsWith(c, <<"b", "r", "e", "a", "k", "i", "n", "g">>)
      userRelevantCommits == SelectSeq(commits, Relevant)
      features == Bucket(userRelevantCommits, <<"f", "e", "a", "t">>)
      fixes == Bucket(userRelevantCommits, <<"f", "i", "x">>)
      performance == Bucket(userRelevantCommits, <<"p", "e", "r", "f">>)
      breaking == Bucket(userRelevantCommits, <<"b", "r", "e", "a", "k", "i", "n", "g">>)
  IN  <<"# ">> \o repoName \o <<" - Changelog", "\n", "\n">>
        \o <<"**">> \o dateRange \o <<"**", "\n", "\n">>
        \o ExternalSection(<<"(sparkles)", " ", "New Features">>, features, <<"f", "e", "a", "t">>)
        \o ExternalSection(<<"(warning)", " ", "Breaking Changes">>, breaking, <<"b", "r", "e", "a", "k", "i", "n", "g">>)
        \o ExternalSection(<<"(bug)", " ", "Bug Fixes">>, fixes, <<"f", "i", "x">>)
        \o ExternalSection(<<"(zap)", " ", "Performance Improvements">>, performance, <<"p", "e", "r", "f">>)

(***************************************************************************)
(* src/db/setup.js                                                         *)
(***************************************************************************)
EmptyDB == [repositories |-> <<>>, history |-> <<>>]

MissingFile == [kind |-> "missing", repositories |-> NotArray, history |-> NotArray]
GarbageFile == [kind |-> "garbage", repositories |-> NotArray, history |-> NotArray]

JsonFile(repos, hist) == [kind |-> "json", repositories |-> repos, history |-> hist]

(* a file whose JSON document is a number, a string or a boolean *)
ScalarFile == [kind |-> "scalar", repositories |-> NotArray, history |-> NotArray]

(* what a property read from such a value gives *)
Undefined == <<[undefined |-> TRUE]>>

(* readDB: the parsed document, each top-level key replaced by [] when it is
   not an array; the empty store when the file is missing or unparseable.
   When JSON.parse gave a number, a string or a boolean, the two assignments
   of lines 106 and 110 leave it as it is, and it is returned *)
readDB(f) ==
  IF f.kind = "scalar" THEN [repositories |-> Undefined, history |-> Undefined]
  ELSE IF f.kind # "json" THEN EmptyDB
  ELSE [repositories |-> IF f.repositories = NotArray THEN <<>> ELSE f.repositories,
        history      |-> IF f.history = NotArray THEN <<>> ELSE f.history]

(* writeDB: the whole document replaces the file *)
writeDB(db) == JsonFile(db.repositories, db.history)

(* setup: the file is rewritten with the empty store when it is missing,
   unparseable or lacks either array; otherwise it is left alone *)
NeedsInitialization(f) ==
  \/ f.kind # "json"
  \/ f.repositories = NotArray
  \/ f.history = NotArray

setup(f) == IF NeedsInitialization(f) THEN writeDB(EmptyDB) ELSE f

(***************************************************************************)
(* Array helpers: Array.prototype.sort (stable) with a descending           *)
(* comparator, findIndex, filter, slice(0, limit).                         *)
(***************************************************************************)
(* the stable descending order of positions 1..Len(keys) by key *)
RECURSIVE InsertDesc(_, _, _)
InsertDesc(sorted, i, keys) ==
  IF sorted = <<>> THEN <<i>>
  ELSE IF keys[Head(sorted)] >= keys[i]
       THEN <<Head(sorted)>> \o InsertDesc(Tail(sorted), i, keys)
       ELSE <<i>> \o sorted

RECURSIVE SortDescFrom(_, _, _)
SortDescFrom(sorted, i, keys) ==
  IF i > Len(keys) THEN sorted
  ELSE SortDescFrom(InsertDesc(sorted, i, keys), i + 1, keys)

(* s.sort((a, b) => keys(b) - keys(a)), keys[i] the key of s[i] *)
SortDescBy(s, keys) ==
  LET perm == SortDescFrom(<<>>, 1, keys)
  IN  [j \in 1..Len(s) |-> s[perm[j]]]

(* sort((a, b) => new Date(b.lastUsed) - new Date(a.lastUsed)) *)
SortByLastUsed(repos) == SortDescBy(repos, [i \in 1..Len(repos) |-> repos[i].lastUsed])

(* sort((a, b) => new Date(b.generatedAt) - new Date(a.generatedAt)) *)
SortByGeneratedAt(hist) == SortDescBy(hist, [i \in 1..Len(hist) |-> hist[i].generatedAt])

(* findIndex(repo => repo.url === url) *)
FindIndexByUrl(repos, url) ==
  IF \E i \in 1..Len(repos) : repos[i].url = url
  THEN CHOOSE i \in 1..Len(repos) :
         repos[i].url = url /\ \A j \in 1..(i - 1) : repos[j].url # url
  ELSE -1

(* filter(entry => entry.repoUrl === repoUrl) *)
FilterByRepoUrl(hist, repoUrl) ==
  LET ForUrl(e) == e.repoUrl = repoUrl
  IN  SelectSeq(hist, ForUrl)

(* slice(0, limit) *)
Slice(s, limit) == SubSeq(s, 1, IF limit < Len(s) THEN limit ELSE Len(s))

(***************************************************************************)
(* src/db/repositories.js                                                  *)
(***************************************************************************)
(* saveRepository without the findIndex lookup: a record is pushed every time *)
saveRepository_AlwaysPush(f, url, name, t) ==
  LET db == readDB(f)
      repos == Append(db.repositories, [url |-> url, name |-> name, lastUsed |-> t])
  IN  writeDB([db EXCEPT !.repositories = SortByLastUsed(repos)])

(* db.repositories.findIndex on a value without repositories: a TypeError,
   which nothing in saveRepository catches; the file is left as it was *)
saveRepositoryThrows(f) == readDB(f).repositories = Undefined

(* saveRepository that also stores the name passed in the record found *)
saveRepository_Rename(f, url, name, t) ==
  LET db == readDB(f)
      existingRepoIndex == FindIndexByUrl(db.repositories, url)
      repos == IF existingRepoIndex # -1
               THEN [db.repositories EXCEPT ![existingRepoIndex] =
                       [url |-> url, name |-> name, lastUsed |-> t]]
               ELSE Append(db.repositories, [url |-> url, name |-> name, lastUsed |-> t])
  IN  IF saveRepositoryThrows(f) THEN f
      ELSE writeDB([db EXCEPT !.repositories = SortByLastUsed(repos)])

(* saveRepository at clock t: update lastUsed of the record found, or push a
   new record; sort by lastUsed, most recent first; write *)
saveRepository(f, url, name, t) ==
  LET db == readDB(f)
      existingRepoIndex == FindIndexByUrl(db.repositories, url)
      repos == IF existingRepoIndex # -1
               THEN [db.repositories EXCEPT ![existingRepoIndex].lastUsed = t]
               ELSE Append(db.repositories, [url |-> url, name |-> name, lastUsed |-> t])
  IN  IF saveRepositoryThrows(f) THEN f
      ELSE writeDB([db EXCEPT !.repositories = SortByLastUsed(repos)])

getRecentRepositories(f, limit) ==
  IF readDB(f).repositories = Undefined THEN <<>>
  ELSE Slice(SortByLastUsed(readDB(f).repositories), limit)

getRepository(f, url) ==
  LET i == FindIndexByUrl(readDB(f).repositories, url)
  IN  IF readDB(f).repositories = Undefined THEN NullInfo
      ELSE IF i = -1 THEN NullInfo ELSE readDB(f).repositories[i]

(***************************************************************************)
(* src/db/history.js                                                       *)
(***************************************************************************)
(* lastCommitHash || null *)
OrNull(h) == IF h = <<>> THEN Null ELSE h

(* saveChangelogGeneration that starts the history over with the new entry *)
saveChangelogGeneration_Overwrite(f, repoUrl, repoName, startDate, endDate, lastCommitHash, t1, t2) ==
  LET db == readDB(saveRepository(f, repoUrl, repoName, t1))
      entry == [repoUrl        |-> repoUrl,
                generatedAt    |-> t2,
                startDate      |-> startDate,
                endDate        |-> endDate,
                lastCommitHash |-> OrNull(lastCommitHash)]
  IN  writeDB([db EXCEPT !.history = <<entry>>])

(* saveChangelogGeneration: saveRepository at clock t1, then read again,
   push the entry stamped t2, sort by generatedAt, newest first; write *)
saveChangelogGeneration(f, repoUrl, repoName, startDate, endDate, lastCommitHash, t1, t2) ==
  LET db == readDB(saveRepository(f, repoUrl, repoName, t1))
      entry == [repoUrl        |-> repoUrl,
                generatedAt    |-> t2,
                startDate      |-> startDate,
                endDate        |-> endDate,
                lastCommitHash |-> OrNull(lastCommitHash)]
  IN  IF saveRepositoryThrows(f) THEN f
      ELSE writeDB([db EXCEPT !.history = SortByGeneratedAt(Append(db.history, entry))])

(* Math.floor in place of Math.ceil *)
CeilDays_Floor(ms) == ms \div DayTicks

(* Math.ceil((now - lastDate) / day) *)
CeilDays(ms) == IF ms % DayTicks = 0 THEN ms \div DayTicks ELSE (ms \div DayTicks) + 1

(* getDaysSinceLastChangelog with the comparator reversed: the oldest entry *)
getDaysSinceLastChangelog_Oldest(f, repoUrl, t) ==
  LET db == readDB(f)
      sorted == SortByGeneratedAt(FilterByRepoUrl(db.history, repoUrl))
  IN  IF sorted = <<>> THEN NullInfo
      ELSE [days           |-> CeilDays(t - sorted[Len(sorted)].generatedAt),
            lastDate       |-> sorted[Len(sorted)].endDate,
            lastCommitHash |-> sorted[Len(sorted)].lastCommitHash]

(* getDaysSinceLastChangelog at clock t *)
getDaysSinceLastChangelog(f, repoUrl, t) ==
  LET db == readDB(f)
      sorted == SortByGeneratedAt(FilterByRepoUrl(db.history, repoUrl))
  IN  IF db.history = Undefined THEN NullInfo
      ELSE IF sorted = <<>> THEN NullInfo
      ELSE [days           |-> CeilDays(t - sorted[1].generatedAt),
            lastDate       |-> sorted[1].endDate,
            lastCommitHash |-> sorted[1].lastCommitHash]

(* getChangelogHistory without the sort: the entries in the order of the file *)
getChangelogHistory_Unsorted(f, repoUrl, limit) ==
  IF readDB(f).history = Undefined THEN <<>>
  ELSE Slice(FilterByRepoUrl(readDB(f).history, repoUrl), limit)

getChangelogHistory(f, repoUrl, limit) ==
  IF readDB(f).history = Undefined THEN <<>>
  ELSE Slice(SortByGeneratedAt(FilterByRepoUrl(readDB(f).history, repoUrl)), limit)

(***************************************************************************)
(* src/ai-summarizer.js: enhanceChangelog                                  *)
(***************************************************************************)
(* the states of ~/.anthropic_key: no file, a file holding a key, a file
   holding only white space, a file that cannot be read *)
KeyFiles == {"absent", "key", "blank", "unreadable"}

(* whether apiKey is truthy after the environment and the key file are tried *)
HasApiKey(e) == e.apiKeyEnv \/ e.keyFile = "key"

(* the texts a model may answer with *)
Responses ==
  { <<"#", " ", "R", " ", "-", " ", "C", "h", "a", "n", "g", "e", "l", "o", "g", "\n", "-", " ", "x">>,
    <<"#", "#", " ", "F", "i", "x", "e", "d", "\n", "-", " ", "y">>,
    <<"#", " ", "\n", "-", " ", "z">>,
    <<"#", " ", " ", "B", " ", "-", " ", "C", "h", "a", "n", "g", "e", "l", "o", "g", " ", "\n", "#", " ", "C">> }

(* what anthropic.messages.create ends with *)
LlmOutcomes ==
  { [kind |-> "text", text |-> r] : r \in Responses }
    \cup { [kind |-> "no response"], [kind |-> "empty content"], [kind |-> "no text"],
           [kind |-> "429"], [kind |-> "error"] }

(* extractedTitle.replace(/ - Changelog$/, '') *)
StripChangelogSuffix(s) ==
  IF EndsWith(s, <<" ", "-", " ", "C", "h", "a", "n", "g", "e", "l", "o", "g">>)
  THEN SubSeq(s, 1, Len(s) - Len(<<" ", "-", " ", "C", "h", "a", "n", "g", "e", "l", "o", "g">>))
  ELSE s

(* ExtractTitle with the loop running to the end: the last heading wins *)
ExtractTitle_Last(content) ==
  LET lines == Split(content, "\n")
      IsHeading(i) == StartsWith(lines[i], <<"#", " ">>)
  IN  IF \E i \in 1..Len(lines) : IsHeading(i)
      THEN LET last == CHOOSE i \in 1..Len(lines) :
                         IsHeading(i) /\ \A j \in (i + 1)..Len(lines) : ~IsHeading(j)
           IN  StripChangelogSuffix(Trim(Substring(lines[last], 2)))
      ELSE <<"Changelog">>

(* the title of the first line that starts with '# ', else "Changelog" *)
ExtractTitle(content) ==
  LET lines == Split(content, "\n")
      IsHeading(i) == StartsWith(lines[i], <<"#", " ">>)
  IN  IF \E i \in 1..Len(lines) : IsHeading(i)
      THEN LET first == CHOOSE i \in 1..Len(lines) :
                          IsHeading(i) /\ \A j \in 1..(i - 1) : ~IsHeading(j)
           IN  StripChangelogSuffix(Trim(Substring(lines[first], 2)))
      ELSE <<"Changelog">>

Returned(value) == [called |-> TRUE, threw |-> FALSE, value |-> value]
Threw == [called |-> TRUE, threw |-> TRUE, value |-> NullInfo]
NotCalled == [called |-> FALSE, threw |-> FALSE, value |-> NullInfo]

(* the catch block that rethrows what it caught *)
Caught_Rethrow(outcome) == Threw

(* the catch block: the error is logged and null is returned *)
Caught(outcome) == Returned(NullInfo)

(* the try block around the request, and its catch *)
AfterRequest(outcome) ==
  IF outcome.kind \in {"429", "error"} THEN Caught(outcome)
  ELSE IF outcome.kind \in {"no response", "empty content"} THEN Returned(NullInfo)
  ELSE IF outcome.kind = "no text" THEN Caught(outcome)
  ELSE Returned([content |-> outcome.text, title |-> ExtractTitle(outcome.text)])

(* EnhanceBegin without the "if (!apiKey) return null" guard *)
EnhanceBegin_NoKeyGuard(g, e) ==
  IF ~IsArray(g.fetched.data) THEN [g EXCEPT !.ai = Threw, !.pc = "enhanced"]
  ELSE [g EXCEPT !.pc = "request"]

(* enhanceChangelog up to the request: the key is resolved, the commits are
   mapped (which throws when the body was no array) *)
EnhanceBegin(g, e) ==
  IF ~HasApiKey(e) THEN [g EXCEPT !.ai = Returned(NullInfo), !.pc = "enhanced"]
  ELSE IF ~IsArray(g.fetched.data) THEN [g EXCEPT !.ai = Threw, !.pc = "enhanced"]
  ELSE [g EXCEPT !.pc = "request"]

(***************************************************************************)
(* src/changelog.js: generateChangelog                                     *)
(***************************************************************************)
Formats == {"internal", "external"}
Days == {1, 2}

NoCommitsDoc ==
  [content |-> <<"No commits found for the specified period.">>, title |-> <<"No Changes">>]

ErrorDoc(message) ==
  [content |-> <<"Error generating changelog: ">> \o message, title |-> <<"Error">>]

(* a call of generateChangelog about to fetch *)
GenCall(repoUrl, days, format, useAI) ==
  [pc        |-> "fetch",
   repoUrl   |-> repoUrl,
   days      |-> days,
   format    |-> format,
   useAI     |-> useAI,
   fetched   |-> [kind |-> "none"],
   repoName  |-> <<>>,
   dateRange |-> <<>>,
   llm       |-> [kind |-> "none"],
   ai        |-> NotCalled,
   result    |-> NullInfo,
   threw     |-> FALSE]

GenIdle == [GenCall(<<>>, 0, "internal", FALSE) EXCEPT !.pc = "idle"]

(* the outer catch that lets the error escape *)
CatchAll_Rethrow(g, message) == [g EXCEPT !.pc = "done", !.threw = TRUE]

(* the outer catch: the error becomes the content of a placeholder document *)
CatchAll(g, message) == [g EXCEPT !.pc = "done", !.result = ErrorDoc(message)]

(* AfterFetch without the commits.length === 0 return *)
AfterFetch_NoShortCircuit(g, outcome, t) ==
  IF outcome.kind # "ok" THEN CatchAll([g EXCEPT !.fetched = outcome], FetchErrorMessage(outcome))
  ELSE [g EXCEPT !.fetched = outcome,
                 !.repoName = RepoNameOf(g.repoUrl),
                 !.dateRange = FormatDate(DaysBefore(t, g.days)) \o <<" - ">> \o FormatDate(t),
                 !.pc = IF g.useAI THEN "enhance" ELSE "render"]

(* lines 18-42: the fetch, the zero-commit return, the name and the date range *)
AfterFetch(g, outcome, t) ==
  IF outcome.kind # "ok" THEN CatchAll([g EXCEPT !.fetched = outcome], FetchErrorMessage(outcome))
  ELSE IF outcome.data = <<>>
       THEN [g EXCEPT !.fetched = outcome, !.result = NoCommitsDoc, !.pc = "done"]
       ELSE [g EXCEPT !.fetched = outcome,
                      !.repoName = RepoNameOf(g.repoUrl),
                      !.dateRange = FormatDate(DaysBefore(t, g.days)) \o <<" - ">> \o FormatDate(t),
                      !.pc = IF g.useAI THEN "enhance" ELSE "render"]

(* AfterEnhance that reports a null result as an error *)
AfterEnhance_NullIsError(g) ==
  IF ~g.ai.threw /\ g.ai.value # NullInfo
  THEN [g EXCEPT !.pc = "done",
                 !.result = [content |-> g.ai.value.content,
                             title   |-> IF g.ai.value.title # <<>>
                                         THEN g.ai.value.title
                                         ELSE g.repoName \o <<" Changelog">>]]
  ELSE IF g.ai.threw THEN [g EXCEPT !.pc = "render"]
  ELSE CatchAll(g, <<"AI enhancement unavailable">>)

(* lines 45-58: a result is returned as the document; null or an error
   caught falls through to the standard generation *)
AfterEnhance(g) ==
  IF ~g.ai.threw /\ g.ai.value # NullInfo
  THEN [g EXCEPT !.pc = "done",
                 !.result = [content |-> g.ai.value.content,
                             title   |-> IF g.ai.value.title # <<>>
                                         THEN g.ai.value.title
                                         ELSE g.repoName \o <<" Changelog">>]]
  ELSE [g EXCEPT !.pc = "render"]

(* lines 64-78: the layout the format selects *)
Render(g) ==
  IF ~IsArray(g.fetched.data)
  THEN CatchAll(g, IF g.format = "external"
                   THEN <<"commits.filter is not a function">>
                   ELSE <<"commits.forEach is not a function">>)
  ELSE IF g.format # "external" /\ groupCommitsByTypeThrows(g.fetched.data)
  THEN CatchAll(g, <<"types[type].push is not a function">>)
  ELSE [g EXCEPT !.pc = "done",
                 !.result =
                   [content |-> IF g.format = "external"
                                THEN generateExternalChangelog(g.repoName, g.fetched.data, g.dateRange)
                                ELSE generateInternalChangelog(g.repoName, g.fetched.data, g.dateRange),
                    title   |-> g.repoName \o <<" Changelog">>]]

(***************************************************************************)
(* The Store operations as actions.                                        *)
(***************************************************************************)
NoRet == [op |-> "none"]
(* two processes may run at once; none is in saveChangelogGeneration *)
NoSavers ==
  [p \in {1, 2} |-> [pc |-> "idle", url |-> <<>>, args |-> NullInfo, seen |-> MissingFile]]
NoCalls == [fetch |-> 0, rewriter |-> 0, llm |-> 0, renderer |-> 0]
(* no question asked *)
PromptOff ==
  [pc |-> "off", currentRepoUrl |-> Null, repoUrl |-> <<>>, suggestedTimeframe |-> 1,
   days |-> 0, requests |-> <<>>]

RunIdle ==
  [pc |-> "idle", repoUrl |-> <<>>, forgeUp |-> TRUE, baseline |-> [kind |-> "none"],
   newCommitsInfo |-> NullInfo, days |-> 0, steps |-> <<>>, published |-> "no"]

Init ==
  /\ file = setup(MissingFile)
  /\ now = 0
  /\ ret = NoRet
  /\ lastCall = [u \in URLs |-> -1]
  /\ env = [apiKeyEnv |-> FALSE, keyFile |-> "absent"]
  /\ gen = GenIdle
  /\ log = NoCalls
  /\ forge = [u \in URLs |-> <<>>]
  /\ run = RunIdle
  /\ changelogs = <<>>
  /\ saver = NoSavers
  /\ prompt = PromptOff

Tick ==
  /\ now < MaxTime
  /\ now' = now + 1
  /\ UNCHANGED <<file, ret, lastCall>>
  /\ UNCHANGED <<genVars, runVars>>

Setup ==
  /\ file' = setup(file)
  /\ ret' = [op |-> "setup"]
  /\ UNCHANGED <<now, lastCall>>
  /\ UNCHANGED <<genVars, runVars>>

SaveRepositoryOf(args) ==
  \E url \in URLs, a \in args :
    /\ file' = saveRepository(file, url, a.repoName, now)
    /\ lastCall' = [lastCall EXCEPT ![url] = now]
    /\ ret' = [op |-> "saveRepository", threw |-> saveRepositoryThrows(file)]
    /\ UNCHANGED now
    /\ UNCHANGED <<genVars, runVars>>

(* the clock may advance between the two new Date() of one call *)
SaveChangelogGenerationOf(args) ==
  \E url \in URLs, a \in args,
     t2 \in now..(IF now < MaxTime THEN now + 1 ELSE now) :
    /\ Len(readDB(file).history) < MaxHist
    /\ file' = saveChangelogGeneration(file, url, a.repoName, a.startDate, a.endDate,
                                       a.lastCommitHash, now, t2)
    /\ lastCall' = [lastCall EXCEPT ![url] = now]
    /\ now' = t2
    /\ ret' = [op |-> "saveChangelogGeneration", threw |-> saveRepositoryThrows(file),
               url |-> url, repoName |-> a.repoName]
    /\ UNCHANGED <<genVars, runVars>>

SaveChangelogGeneration == SaveChangelogGenerationOf(GenerationArgs)

GetDaysSinceLastChangelog ==
  \E url \in URLs :
    /\ ret' = [op |-> "getDaysSinceLastChangelog", threw |-> FALSE, url |-> url,
               value |-> getDaysSinceLastChangelog(file, url, now)]
    /\ UNCHANGED <<file, now, lastCall>>
    /\ UNCHANGED <<genVars, runVars>>

(* limit = 5 in the parameter list: the value when no argument is passed *)
DefaultRecent == 5

(* limit = 10 in the parameter list of getChangelogHistory *)
DefaultHistory == 10

(* args is the list of limits passed: none, or one below the number of URLs *)
GetRecentRepositories ==
  \E args \in {<<>>} \cup {<<l>> : l \in 0..(Cardinality(URLs) - 1)} :
    /\ ret' = LET limit == IF args = <<>> THEN DefaultRecent ELSE args[1]
              IN  [op |-> "getRecentRepositories", threw |-> FALSE, args |-> args,
                   limit |-> limit, value |-> getRecentRepositories(file, limit)]
    /\ UNCHANGED <<file, now, lastCall>>
    /\ UNCHANGED <<genVars, runVars>>

GetChangelogHistory ==
  \E url \in URLs, args \in {<<>>, <<0>>, <<1>>} :
    /\ ret' = LET limit == IF args = <<>> THEN DefaultHistory ELSE args[1]
              IN  [op |-> "getChangelogHistory", threw |-> FALSE, url |-> url, args |-> args,
                   limit |-> limit, value |-> getChangelogHistory(file, url, limit)]
    /\ UNCHANGED <<file, now, lastCall>>
    /\ UNCHANGED <<genVars, runVars>>

(* The file is edited, removed or damaged from outside the program. *)
Tamper ==
  /\ file' \in {MissingFile, GarbageFile}
               \cup (IF file.kind = "json"
                     THEN {[file EXCEPT !.repositories = NotArray],
                           [file EXCEPT !.history = NotArray]}
                     ELSE {})
  /\ file' # file
  /\ ret' = [op |-> "tamper"]
  /\ UNCHANGED <<now, lastCall>>
  /\ UNCHANGED <<genVars, runVars>>

(* The store as the program drives it, from the empty store. *)
Next ==
  \/ Tick
  \/ Setup
  \/ SaveChangelogGeneration
  \/ GetDaysSinceLastChangelog
  \/ GetRecentRepositories
  \/ GetChangelogHistory

Spec == Init /\ [][Next]_vars

(* saveChangelogGeneration over a store in which saveRepository, called at
   clock 0, has recorded none, one or both of the URLs under any name. *)
InitFrame ==
  /\ \E named \in [URLs -> {<<>>} \cup {a.repoName : a \in GenerationArgs}],
        first \in URLs :
       LET second == CHOOSE u \in URLs : u # first
           One(f, u) == IF named[u] = <<>> THEN f
                        ELSE saveRepository(f, u, named[u], 0)
       IN  file = One(One(setup(MissingFile), first), second)
  /\ now = 0
  /\ ret = NoRet
  /\ lastCall = [u \in URLs |-> -1]
  /\ env = [apiKeyEnv |-> FALSE, keyFile |-> "absent"]
  /\ gen = GenIdle
  /\ log = NoCalls
  /\ forge = [u \in URLs |-> <<>>]
  /\ run = RunIdle
  /\ changelogs = <<>>
  /\ saver = NoSavers
  /\ prompt = PromptOff

NextFrame ==
  \/ Tick
  \/ SaveChangelogGeneration

SpecFrame == InitFrame /\ [][NextFrame]_vars

(* The store's operations over a file that may be damaged. *)
SaveRepositoryEnv == SaveRepositoryOf(EnvArgs)
SaveChangelogGenerationEnv == SaveChangelogGenerationOf(EnvArgs)

NextEnv ==
  \/ Tick
  \/ Setup
  \/ SaveRepositoryEnv
  \/ SaveChangelogGenerationEnv
  \/ GetDaysSinceLastChangelog
  \/ GetRecentRepositories
  \/ GetChangelogHistory
  \/ Tamper

SpecEnv == Init /\ [][NextEnv]_vars

(***************************************************************************)
(* The store over every file it may find, the clock standing still.        *)
(***************************************************************************)
ReadDB ==
  /\ ret' = [op |-> "readDB", threw |-> FALSE, value |-> readDB(file)]
  /\ UNCHANGED <<file, now, lastCall>>
  /\ UNCHANGED <<genVars, runVars>>

(* the file is removed or replaced from outside the program *)
Damage ==
  /\ file' \in {MissingFile, GarbageFile, ScalarFile}
               \cup (IF file.kind = "json"
                     THEN {[file EXCEPT !.repositories = NotArray],
                           [file EXCEPT !.history = NotArray]}
                     ELSE {})
  /\ file' # file
  /\ ret' = [op |-> "tamper"]
  /\ UNCHANGED <<now, lastCall>>
  /\ UNCHANGED <<genVars, runVars>>

(* the file is edited by hand: its records and entries now stand oldest first *)
Reorder ==
  /\ file.kind = "json" /\ file.repositories # NotArray /\ file.history # NotArray
  /\ file' = [file EXCEPT
                !.repositories = [i \in 1..Len(@) |-> @[Len(@) + 1 - i]],
                !.history      = [i \in 1..Len(@) |-> @[Len(@) + 1 - i]]]
  /\ file' # file
  /\ ret' = [op |-> "tamper"]
  /\ UNCHANGED <<now, lastCall>>
  /\ UNCHANGED <<genVars, runVars>>

NextFile ==
  \/ Setup
  \/ SaveRepositoryEnv
  \/ SaveChangelogGenerationEnv
  \/ GetDaysSinceLastChangelog
  \/ GetRecentRepositories
  \/ GetChangelogHistory
  \/ ReadDB
  \/ Damage
  \/ Reorder

SpecFile == Init /\ [][NextFile]_vars

(***************************************************************************)
(* generateChangelog, step by step.                                        *)
(***************************************************************************)
(* a direct call: any arguments, any key configuration *)
InitGen ==
  /\ file = setup(MissingFile)
  /\ now = MaxTime
  /\ ret = NoRet
  /\ lastCall = [u \in URLs |-> -1]
  /\ env \in [apiKeyEnv : BOOLEAN, keyFile : KeyFiles]
  /\ gen \in {GenCall(u, d, f, a) : u \in URLs, d \in Days, f \in Formats, a \in BOOLEAN}
  /\ log = NoCalls
  /\ forge = [u \in URLs |-> <<>>]
  /\ run = RunIdle
  /\ changelogs = <<>>
  /\ saver = NoSavers
  /\ prompt = PromptOff

GenFetch ==
  /\ gen.pc = "fetch"
  /\ \E outcome \in FetchOutcomes : gen' = AfterFetch(gen, outcome, now)
  /\ log' = [log EXCEPT !.fetch = @ + 1]
  /\ UNCHANGED <<env, storeVars, runVars>>

GenEnhance ==
  /\ gen.pc = "enhance"
  /\ gen' = EnhanceBegin(gen, env)
  /\ log' = [log EXCEPT !.rewriter = @ + 1]
  /\ UNCHANGED <<env, storeVars, runVars>>

GenRequest ==
  /\ gen.pc = "request"
  /\ \E outcome \in LlmOutcomes :
       gen' = [gen EXCEPT !.llm = outcome, !.ai = AfterRequest(outcome), !.pc = "enhanced"]
  /\ log' = [log EXCEPT !.llm = @ + 1]
  /\ UNCHANGED <<env, storeVars, runVars>>

GenAfterEnhance ==
  /\ gen.pc = "enhanced"
  /\ gen' = AfterEnhance(gen)
  /\ UNCHANGED <<env, log, storeVars, runVars>>

GenRender ==
  /\ gen.pc = "render"
  /\ gen' = Render(gen)
  /\ log' = [log EXCEPT !.renderer = @ + 1]
  /\ UNCHANGED <<env, storeVars, runVars>>

NextGen ==
  \/ GenFetch
  \/ GenEnhance
  \/ GenRequest
  \/ GenAfterEnhance
  \/ GenRender

SpecGen == InitGen /\ [][NextGen]_vars

(***************************************************************************)
(* generateChangelog without the rewriter, over more kinds of message: a   *)
(* type that only starts with a keyword, a message that quotes the hash of *)
(* another commit, a type that is an array index, a type that names a      *)
(* member of Object.prototype.                                             *)
(***************************************************************************)
LayoutPool ==
  CommitPool \cup
  { Commit(<<"5", "5", "5", "5", "a", "a", "a", "a">>, <<"f", "e", "a", "t", "u", "r", "e", ":", " ", "g">>, <<"Ann">>, 1),
    Commit(<<"6", "6", "6", "6", "b", "b", "b", "b">>, <<"f", "i", "x", ":", " ", "h", " ", "a", "b", "c", "1", "2", "3", "4">>, <<"Bob">>, 1),
    Commit(<<"3", "3", "3", "3", "c", "c", "c", "c">>, <<"1", ":", " ", "i">>, <<"Cy">>, 1),
    Commit(<<"4", "4", "4", "4", "d", "d", "d", "d">>, <<"t", "o", "S", "t", "r", "i", "n", "g", ":", " ", "j">>, <<"Ann">>, 1) }

InitLayout ==
  /\ file = setup(MissingFile)
  /\ now = MaxTime
  /\ ret = NoRet
  /\ lastCall = [u \in URLs |-> -1]
  /\ env = [apiKeyEnv |-> FALSE, keyFile |-> "absent"]
  /\ gen \in {GenCall(u, d, f, FALSE) : u \in URLs, d \in Days, f \in Formats}
  /\ log = NoCalls
  /\ forge = [u \in URLs |-> <<>>]
  /\ run = RunIdle
  /\ changelogs = <<>>
  /\ saver = NoSavers
  /\ prompt = PromptOff

(* fetchCommits answered with a list of at most MaxCommits distinct commits *)
LayoutFetch ==
  /\ gen.pc = "fetch"
  /\ \E n \in 0..MaxCommits :
       \E commits \in {c \in [1..n -> LayoutPool] : \A i, j \in 1..n : i # j => c[i] # c[j]} :
         gen' = AfterFetch(gen, [kind |-> "ok", data |-> commits], now)
  /\ log' = [log EXCEPT !.fetch = @ + 1]
  /\ UNCHANGED <<env, storeVars, runVars>>

NextLayout ==
  \/ LayoutFetch
  \/ GenRender

SpecLayout == InitLayout /\ [][NextLayout]_vars

(***************************************************************************)
(* src/db/commits.js: getNewCommitsSinceLastChangelog                      *)
(***************************************************************************)
Count(n) == [count |-> n]

(* commits.findIndex(commit => commit.sha.startsWith(hash)), 0-based *)
FindIndexBySha(commits, hash) ==
  IF \E i \in 1..Len(commits) : StartsWith(commits[i].sha, hash)
  THEN (CHOOSE i \in 1..Len(commits) :
          /\ StartsWith(commits[i].sha, hash)
          /\ \A j \in 1..(i - 1) : ~StartsWith(commits[j].sha, hash)) - 1
  ELSE -1

(* whether the function gets as far as its request *)
AsksForge(f, repoUrl, t) ==
  LET lastChangelog == getDaysSinceLastChangelog(f, repoUrl, t)
  IN  lastChangelog # NullInfo /\ lastChangelog.lastCommitHash \notin {Null, <<>>}

(* getNewCommitsSinceLastChangelog that answers zero when the store has no
   hash to compare with *)
getNewCommitsSinceLastChangelog_ZeroWhenUnknown(f, repoUrl, t, outcome) ==
  LET lastChangelog == getDaysSinceLastChangelog(f, repoUrl, t)
  IN  IF ~AsksForge(f, repoUrl, t)
      THEN [newCommits |-> Count(0), lastCommitHash |-> Null]
      ELSE IF outcome.kind # "ok" \/ ~IsArray(outcome.data)
      THEN [newCommits |-> NullInfo, lastCommitHash |-> Null]
      ELSE IF outcome.data = <<>>
      THEN [newCommits |-> Count(0), lastCommitHash |-> lastChangelog.lastCommitHash]
      ELSE LET lastCommitIndex == FindIndexBySha(outcome.data, lastChangelog.lastCommitHash)
           IN  IF lastCommitIndex = -1
               THEN [newCommits |-> Count(Len(outcome.data)), lastCommitHash |-> outcome.data[1].sha]
               ELSE [newCommits |-> Count(lastCommitIndex), lastCommitHash |-> outcome.data[1].sha]

(* outcome: what axios.get ends with, when the function gets that far *)
getNewCommitsSinceLastChangelog(f, repoUrl, t, outcome) ==
  LET lastChangelog == getDaysSinceLastChangelog(f, repoUrl, t)
  IN  IF ~AsksForge(f, repoUrl, t)
      THEN [newCommits |-> NullInfo, lastCommitHash |-> Null]
      ELSE IF outcome.kind # "ok" \/ ~IsArray(outcome.data)
      THEN [newCommits |-> NullInfo, lastCommitHash |-> Null]
      ELSE IF outcome.data = <<>>
      THEN [newCommits |-> Count(0), lastCommitHash |-> lastChangelog.lastCommitHash]
      ELSE LET lastCommitIndex == FindIndexBySha(outcome.data, lastChangelog.lastCommitHash)
           IN  IF lastCommitIndex = -1
               THEN [newCommits |-> Count(Len(outcome.data)), lastCommitHash |-> outcome.data[1].sha]
               ELSE [newCommits |-> Count(lastCommitIndex), lastCommitHash |-> outcome.data[1].sha]

(***************************************************************************)
(* getNewCommitsSinceLastChangelog over the stores that                    *)
(* saveChangelogGeneration leaves.                                         *)
(***************************************************************************)
(* the commits of the listings: the two whose hashes the store may hold,
   and one it never holds *)
ListingPool ==
  { c \in CommitPool :
      c.sha \in { <<"a", "b", "c", "1", "2", "3", "4", "e">>,
                  <<"d", "e", "f", "5", "6", "7", "8", "f">>,
                  <<"f", "e", "d", "c", "b", "a", "9", "8">> } }

(* what the request for the commit list ends with *)
ListingOutcomes ==
  { o \in FetchOutcomes :
      (o.kind = "ok" /\ IsArray(o.data)) =>
        /\ Len(o.data) < Cardinality(ListingPool)
        /\ \A i \in 1..Len(o.data) : o.data[i] \in ListingPool }

GetNewCommitsSinceLastChangelog ==
  \E url \in URLs, outcome \in ListingOutcomes :
    /\ ret' = [op |-> "getNewCommitsSinceLastChangelog", threw |-> FALSE,
               url |-> url, outcome |-> outcome,
               value |-> getNewCommitsSinceLastChangelog(file, url, now, outcome)]
    /\ UNCHANGED <<file, now, lastCall>>
    /\ UNCHANGED <<genVars, runVars>>

NextCommits ==
  \/ SaveChangelogGeneration
  \/ GetNewCommitsSinceLastChangelog

SpecCommits == Init /\ [][NextCommits]_vars

(***************************************************************************)
(* index.js: run, one process per run.                                     *)
(***************************************************************************)
CommitBySha(sha) == CHOOSE c \in CommitPool : c.sha = sha

(* the histories a repository on the forge may have, newest first *)
ForgeHistories ==
  { <<>>,
    <<CommitBySha(<<"d", "e", "f", "5", "6", "7", "8", "f">>),
      CommitBySha(<<"a", "b", "c", "1", "2", "3", "4", "e">>)>> }

(* the forge of the runs: one repository without commits, one with *)
Forges ==
  { f \in [URLs -> ForgeHistories] :
      \A u \in URLs : (f[u] = <<>>) <=> (RepoNameOf(u) = <<"a">>) }

RECURSIVE Since(_, _)
Since(commits, t) ==
  IF commits = <<>> THEN <<>>
  ELSE IF Head(commits).date >= t THEN <<Head(commits)>> \o Since(Tail(commits), t)
  ELSE Since(Tail(commits), t)

RECURSIVE Until(_, _)
Until(commits, t) ==
  IF commits = <<>> THEN <<>>
  ELSE IF Head(commits).date <= t THEN <<Head(commits)>> \o Until(Tail(commits), t)
  ELSE Until(Tail(commits), t)

(* the commits the forge lists at clock t *)
ForgeAt(u, t) == Until(forge[u], t)

(* a run on a machine whose key, if any, is in the environment once the
   prelude has run; the store is new *)
InitRun ==
  /\ file = setup(MissingFile)
  /\ now = 0
  /\ ret = NoRet
  /\ lastCall = [u \in URLs |-> -1]
  /\ env \in [apiKeyEnv : BOOLEAN, keyFile : {"absent"}]
  /\ gen = GenIdle
  /\ log = NoCalls
  /\ forge \in Forges
  /\ run = RunIdle
  /\ changelogs = <<>>
  /\ saver = NoSavers
  /\ prompt = PromptOff

(* lines 96-453: db.setup(), the repository is chosen, the history is
   consulted, the configuration is answered *)
RunStart ==
  /\ run.pc = "idle"
  /\ Len(readDB(file).history) < MaxHist
  /\ \E repoUrl \in URLs, up \in BOOLEAN, days \in Days, format \in Formats :
       LET f == setup(file)
           lastChangelogInfo == getDaysSinceLastChangelog(f, repoUrl, now)
           asked == lastChangelogInfo # NullInfo /\ AsksForge(f, repoUrl, now)
           outcome == IF ~asked THEN [kind |-> "none"]
                      ELSE IF up THEN [kind |-> "ok", data |-> ForgeAt(repoUrl, now)]
                      ELSE [kind |-> "no response"]
       IN  /\ file' = f
           /\ run' = [pc             |-> "generate",
                      repoUrl        |-> repoUrl,
                      forgeUp        |-> up,
                      baseline       |-> outcome,
                      newCommitsInfo |-> IF lastChangelogInfo # NullInfo
                                         THEN getNewCommitsSinceLastChangelog(f, repoUrl, now, outcome)
                                         ELSE NullInfo,
                      days           |-> days,
                      steps          |-> <<"read">>,
                      published      |-> "no"]
           /\ gen' = GenCall(repoUrl, days, format, env.apiKeyEnv)
           /\ ret' = [op                |-> "run started",
                      lastChangelogInfo |-> lastChangelogInfo,
                      suggestedTimeframe |-> IF lastChangelogInfo # NullInfo
                                             THEN lastChangelogInfo.days ELSE 1]
  /\ log' = NoCalls
  /\ UNCHANGED <<now, lastCall, env, forge, prompt, changelogs, saver>>

(* generateChangelog's fetch, answered by the forge *)
RunFetch ==
  /\ run.pc = "generate"
  /\ gen.pc = "fetch"
  /\ \E outcome \in
          IF run.forgeUp
          THEN {[kind |-> "ok",
                 data |-> Since(ForgeAt(run.repoUrl, now), DaysBefore(now, gen.days))],
                [kind |-> "status"]}
          ELSE {[kind |-> "no response"], [kind |-> "other"]} :
       gen' = AfterFetch(gen, outcome, now)
  /\ log' = [log EXCEPT !.fetch = @ + 1]
  /\ run' = [run EXCEPT !.steps = Append(@, "fetch")]
  /\ UNCHANGED <<env, storeVars, forge, prompt, changelogs, saver>>

(* lines 465-500: the preview, then the editor the user chose.  No editor,
   an editor that returns the edited text and a text editor that fails (its
   catch returns the text it was given) all go on to the prompt of line 503;
   the text plays no part in what follows here *)
RunEdit ==
  /\ run.pc = "generate"
  /\ gen.pc = "done"
  /\ run' = [run EXCEPT !.pc = "publish", !.steps = Append(@, "edit")]
  /\ ret' = [op |-> "run edited"]
  /\ UNCHANGED <<file, now, lastCall, env, gen, log, forge, prompt, changelogs, saver>>

(* RunPublish in which a publication that fails ends the run *)
RunPublish_FailureEndsRun ==
  /\ run.pc = "publish"
  /\ \E outcome \in {"declined", "ok", "failed"} :
       run' = IF outcome = "failed"
              THEN [RunIdle EXCEPT !.steps = Append(run.steps, "publish")]
              ELSE [run EXCEPT !.pc = "save", !.published = outcome,
                               !.steps = Append(@, "publish")]
  /\ ret' = [op |-> "run published"]
  /\ UNCHANGED <<file, now, lastCall, genVars, forge, prompt, changelogs, saver>>

(* lines 502-516: the answer to the prompt, and publishChangelog, which
   catches what publishing throws *)
RunPublish ==
  /\ run.pc = "publish"
  /\ \E outcome \in {"declined", "ok", "failed"} :
       run' = [run EXCEPT !.pc = "save", !.published = outcome,
                          !.steps = Append(@, "publish")]
  /\ ret' = [op |-> "run published"]
  /\ UNCHANGED <<file, now, lastCall, genVars, forge, prompt, changelogs, saver>>

(* the commits the run has seen, newest first: the listing it compared with
   the baseline, else the commits generateChangelog fetched *)
Observed ==
  IF run.baseline.kind = "ok" /\ run.baseline.data # <<>> THEN run.baseline.data
  ELSE IF gen.fetched.kind = "ok" /\ IsArray(gen.fetched.data) THEN gen.fetched.data
  ELSE <<>>

(* RunFinish that does not wait for the publication *)
RunFinish_BeforePublish ==
  /\ run.pc \in {"publish", "save"}
  /\ \E t2 \in now..(IF now < MaxTime THEN now + 1 ELSE now) :
       LET lastCommitHash ==
             IF run.newCommitsInfo # NullInfo
                /\ run.newCommitsInfo.lastCommitHash \notin {Null, <<>>}
             THEN run.newCommitsInfo.lastCommitHash
             ELSE Null
           startDate == FormatDate(DaysBefore(now, run.days))
           endDate == FormatDate(now)
       IN  /\ file' = saveChangelogGeneration(file, run.repoUrl, RepoNameOf(run.repoUrl),
                                              startDate, endDate, lastCommitHash, now, t2)
           /\ lastCall' = [lastCall EXCEPT ![run.repoUrl] = now]
           /\ now' = t2
           /\ ret' = [op |-> "run", published |-> run.published, observed |-> Observed,
                      entry |-> [repoUrl        |-> run.repoUrl,
                                 generatedAt    |-> t2,
                                 startDate      |-> startDate,
                                 endDate        |-> endDate,
                                 lastCommitHash |-> lastCommitHash]]
  /\ run' = [RunIdle EXCEPT !.steps = Append(run.steps, "write")]
  /\ gen' = GenIdle
  /\ log' = NoCalls
  /\ UNCHANGED <<env, forge, prompt, changelogs, saver>>

(* lines 518-535: the entry of this run is saved, and the process ends with
   its locals *)
RunFinish ==
  /\ run.pc = "save"
  /\ \E t2 \in now..(IF now < MaxTime THEN now + 1 ELSE now) :
       LET lastCommitHash ==
             IF run.newCommitsInfo # NullInfo
                /\ run.newCommitsInfo.lastCommitHash \notin {Null, <<>>}
             THEN run.newCommitsInfo.lastCommitHash
             ELSE Null
           startDate == FormatDate(DaysBefore(now, run.days))
           endDate == FormatDate(now)
       IN  /\ file' = saveChangelogGeneration(file, run.repoUrl, RepoNameOf(run.repoUrl),
                                              startDate, endDate, lastCommitHash, now, t2)
           /\ lastCall' = [lastCall EXCEPT ![run.repoUrl] = now]
           /\ now' = t2
           /\ ret' = [op |-> "run", published |-> run.published, observed |-> Observed,
                      entry |-> [repoUrl        |-> run.repoUrl,
                                 generatedAt    |-> t2,
                                 startDate      |-> startDate,
                                 endDate        |-> endDate,
                                 lastCommitHash |-> lastCommitHash]]
  /\ run' = [RunIdle EXCEPT !.steps = Append(run.steps, "write")]
  /\ gen' = GenIdle
  /\ log' = NoCalls
  /\ UNCHANGED <<env, forge, prompt, changelogs, saver>>

NextRun ==
  \/ Tick
  \/ RunStart
  \/ RunFetch
  \/ GenEnhance
  \/ GenRequest
  \/ GenAfterEnhance
  \/ GenRender
  \/ RunEdit
  \/ RunPublish
  \/ RunFinish

SpecRun == InitRun /\ [][NextRun]_vars

(***************************************************************************)
(* Two processes in saveChangelogGeneration at once.  Each readDB and each  *)
(* writeDB is one step of the file system; between a process's read and    *)
(* its write the other process may read and write.                         *)
(***************************************************************************)
(* the file a write leaves when it is made from the file as it is now instead
   of the file as the process read it *)
Written_Merged(seen, current) == current

(* the file from which a process computes what it writes: the one it read *)
Written(seen, current) == seen

(* a process is one invocation: it makes its call once *)
SaverCall(p) ==
  /\ saver[p].pc = "idle"
  /\ \E url \in URLs, a \in GenerationArgs :
       saver' = [saver EXCEPT ![p] = [pc |-> "repoRead", url |-> url, args |-> a,
                                      seen |-> MissingFile]]
  /\ ret' = [op |-> "call", by |-> p]
  /\ UNCHANGED <<file, now, lastCall, genVars, forge, run, prompt, changelogs>>

(* readDB in saveRepository (pc repoRead) and in saveChangelogGeneration
   (pc histRead) *)
SaverRead(p) ==
  /\ saver[p].pc \in {"repoRead", "histRead"}
  /\ saver' = [saver EXCEPT ![p].seen = file,
                             ![p].pc = IF @ = "repoRead" THEN "repoWrite" ELSE "histWrite"]
  /\ ret' = [op |-> "readDB", by |-> p]
  /\ UNCHANGED <<file, now, lastCall, genVars, forge, run, prompt, changelogs>>

(* writeDB in saveRepository (lines 24-38 of repositories.js: the record is
   updated or pushed, the records are sorted) and in saveChangelogGeneration
   (lines 22-34: the entry is pushed, the history is sorted), each made from
   what the process read *)
SaverWrite(p) ==
  /\ saver[p].pc \in {"repoWrite", "histWrite"}
  /\ file' = LET f == Written(saver[p].seen, file)
                 a == saver[p].args
                 entry == [repoUrl        |-> saver[p].url,
                           generatedAt    |-> now,
                           startDate      |-> a.startDate,
                           endDate        |-> a.endDate,
                           lastCommitHash |-> OrNull(a.lastCommitHash)]
             IN  IF saver[p].pc = "repoWrite"
                 THEN saveRepository(f, saver[p].url, a.repoName, now)
                 ELSE writeDB([readDB(f) EXCEPT
                                 !.history = SortByGeneratedAt(Append(@, entry))])
  /\ saver' = [saver EXCEPT ![p].pc = IF @ = "repoWrite" THEN "histRead" ELSE "done",
                             ![p].seen = MissingFile]
  /\ ret' = [op |-> "writeDB", by |-> p, document |-> readDB(file')]
  /\ UNCHANGED <<now, lastCall, genVars, forge, run, prompt, changelogs>>

NextRace ==
  \/ Tick
  \/ \E p \in DOMAIN saver : SaverCall(p)
  \/ \E p \in DOMAIN saver : SaverRead(p)
  \/ \E p \in DOMAIN saver : SaverWrite(p)

SpecRace == Init /\ [][NextRace]_vars

(***************************************************************************)
(* server.js: the publishing server.  The list lives in memory, newest     *)
(* first; a field of a request body that is absent is undefined.           *)
(***************************************************************************)
MaxPosts == 2

(* undefined where the code holds a string *)
Missing == <<"undefined">>

(* !x for x a string or undefined *)
Falsy(x) == x = Missing \/ x = <<>>

(* the bodies a client may send: publishToLocalServer's payload (a title, the
   text, a date) among them, the text empty when the edited changelog is *)
Bodies ==
  [title   : {Missing, <<>>, <<"Changelog day 0">>},
   content : {Missing, <<>>, <<"c">>, <<"d">>},
   date    : {Missing, <<"day 0">>}]

(* app.post that appends where the code unshifts *)
Post_Push(body, list, t) ==
  IF Falsy(body.title) \/ Falsy(body.content)
  THEN [status |-> 400, body |-> [error |-> <<"Title and content are required">>],
        changelogs |-> list]
  ELSE LET newChangelog == [id      |-> ToString(t),
                            title   |-> body.title,
                            content |-> body.content,
                            date    |-> IF Falsy(body.date) THEN FormatDate(t) ELSE body.date]
       IN  [status |-> 201, body |-> newChangelog, changelogs |-> Append(list, newChangelog)]

(* app.post('/api/changelogs') at clock t: the answer and the list it leaves *)
Post(body, list, t) ==
  IF Falsy(body.title) \/ Falsy(body.content)
  THEN [status |-> 400, body |-> [error |-> <<"Title and content are required">>],
        changelogs |-> list]
  ELSE LET newChangelog == [id      |-> ToString(t),
                            title   |-> body.title,
                            content |-> body.content,
                            date    |-> IF Falsy(body.date) THEN FormatDate(t) ELSE body.date]
       IN  [status |-> 201, body |-> newChangelog, changelogs |-> <<newChangelog>> \o list]

PostChangelog ==
  /\ \E body \in Bodies :
       /\ Len(Post(body, changelogs, now).changelogs) <= MaxPosts
       /\ changelogs' = Post(body, changelogs, now).changelogs
       /\ ret' = [op |-> "POST", request |-> body,
                  status |-> Post(body, changelogs, now).status,
                  body   |-> Post(body, changelogs, now).body]
  /\ UNCHANGED <<file, now, lastCall, genVars, forge, run, prompt, saver>>

GetChangelogs ==
  /\ ret' = [op |-> "GET", status |-> 200, body |-> changelogs]
  /\ UNCHANGED <<file, now, lastCall, genVars, runVars>>

NextServer ==
  \/ Tick
  \/ PostChangelog
  \/ GetChangelogs

(* the server starts with no changelog, the state Init describes *)
SpecServer == Init /\ [][NextServer]_vars

(***************************************************************************)
(* index.js: run, the questions it asks before generateChangelog, and the  *)
(* requests that go out for the answers.                                   *)
(***************************************************************************)
(* the strings a remote of the working directory, a typed answer or a stored
   URL may be: empty, of another site, without a '/', a repository of the
   forge *)
RepoInputs ==
  { <<>>, <<"example.org", "/", "o", "/", "a">>, <<"github.com">>,
    <<"backup:project", ".git">>, <<"https://github.com", "/", "o", "/", "a">> }

(* the validate of the customRepo question, TRUE for acceptance: input is
   not empty and input.includes('github.com') *)
ValidateCustomRepo(input) ==
  input # <<>> /\ \E i \in 1..Len(input) : input[i] \in {"github.com", "https://github.com"}

(* repoUrl.replace(/\.git$/, '').split('/') *)
UrlParts(repoUrl) ==
  Split(IF EndsWith(repoUrl, <<".git">>) THEN SubSeq(repoUrl, 1, Len(repoUrl) - 1)
        ELSE repoUrl, "/")

(* `https://api.github.com/repos/${repoOwner}/${repoName}/commits`, with
   urlParts[urlParts.length - 2] undefined when there is one part *)
ApiUrl(repoUrl) ==
  LET urlParts == UrlParts(repoUrl)
      repoOwner == IF Len(urlParts) >= 2 THEN urlParts[Len(urlParts) - 1]
                   ELSE <<"undefined">>
      repoName == urlParts[Len(urlParts)]
  IN  <<"https://api.github.com/repos/">> \o repoOwner \o <<"/">> \o repoName
        \o <<"/commits">>

(* the timeframes offered by name *)
Presets == {1, 7, 14, 30}

(* what the user types when asked for a number of days *)
DayInputs == { <<>>, <<"a">>, <<"0">>, <<"-", "1">>, <<"2">>, <<" ", "2", "x">> }

(* parseInt(input) reads white space, a sign, then digits, and ignores the
   rest: whether it is a number, and the number *)
ParseInt(input) ==
  LET t == TrimLeft(input)
      signed == t # <<>> /\ Head(t) \in {"-", "+"}
      digits == LeadingDigits(IF signed THEN Tail(t) ELSE t)
  IN  [isNaN |-> digits = <<>>,
       value |-> IF signed /\ Head(t) = "-" THEN 0 - DecimalValue(digits)
                 ELSE DecimalValue(digits)]

(* the validate of the customDays question, TRUE for acceptance *)
ValidateCustomDays(input) == ~(ParseInt(input).isNaN \/ ParseInt(input).value <= 0)

(* getRecentRepositories(5) *)
RecentLimit == 5

(* the store a run may find: none yet, or the one an earlier run left at
   clock 0 for a repository, with or without a hash *)
InitPrompt ==
  /\ file \in {MissingFile} \cup
       { saveChangelogGeneration(setup(MissingFile), u, RepoNameOf(u), <<"day 0">>,
                                 <<"day 0">>, h, 0, 0) :
           u \in RepoInputs \ {<<>>}, h \in {<<>>, <<"d", "e", "f">>} }
  /\ now \in 0..MaxTime
  /\ ret = NoRet
  /\ lastCall = [u \in URLs |-> -1]
  /\ env = [apiKeyEnv |-> FALSE, keyFile |-> "absent"]
  /\ gen = GenIdle
  /\ log = NoCalls
  /\ forge = [u \in URLs |-> <<>>]
  /\ run = RunIdle
  /\ changelogs = <<>>
  /\ saver = NoSavers
  /\ \E c \in {Null} \cup (RepoInputs \ {<<>>}) :
       prompt = [PromptOff EXCEPT !.pc = "repo", !.currentRepoUrl = c]

(* lines 96-365: db.setup(), then the repository is selected from the list,
   or the URL is asked for when the list offers nothing else *)
PromptRepo ==
  /\ prompt.pc = "repo"
  /\ file' = setup(file)
  /\ LET recentRepos == getRecentRepositories(setup(file), RecentLimit)
         choices == (IF prompt.currentRepoUrl # Null THEN {prompt.currentRepoUrl} ELSE {})
                      \cup {recentRepos[i].url : i \in 1..Len(recentRepos)}
     IN  IF choices # {}
         THEN \/ \E selectedRepo \in choices :
                   prompt' = [prompt EXCEPT !.pc = "history", !.repoUrl = selectedRepo]
              \/ prompt' = [prompt EXCEPT !.pc = "customRepo"]
         ELSE prompt' = [prompt EXCEPT !.pc = "customRepo"]
  /\ ret' = [op |-> "selectedRepo"]
  /\ UNCHANGED <<now, lastCall, genVars, forge, run, changelogs, saver>>

(* the customRepo question: an answer that validate refuses is asked again *)
PromptCustomRepo ==
  /\ prompt.pc = "customRepo"
  /\ \E input \in RepoInputs :
       /\ prompt' = IF ValidateCustomRepo(input)
                    THEN [prompt EXCEPT !.pc = "history", !.repoUrl = input]
                    ELSE prompt
       /\ ret' = [op |-> "customRepo", input |-> input,
                  accepted |-> ValidateCustomRepo(input)]
  /\ UNCHANGED <<file, now, lastCall, genVars, forge, run, changelogs, saver>>

(* lines 367-394: the history of the repository is read, and the forge is
   asked for its commits when the history holds a hash *)
PromptHistory ==
  /\ prompt.pc = "history"
  /\ LET lastChangelogInfo == getDaysSinceLastChangelog(file, prompt.repoUrl, now)
     IN  prompt' = [prompt EXCEPT
                      !.pc = "timeframe",
                      !.suggestedTimeframe =
                         IF lastChangelogInfo # NullInfo THEN lastChangelogInfo.days ELSE 1,
                      !.requests =
                         IF AsksForge(file, prompt.repoUrl, now)
                         THEN Append(@, ApiUrl(prompt.repoUrl)) ELSE @]
  /\ ret' = [op |-> "history"]
  /\ UNCHANGED <<file, now, lastCall, genVars, forge, run, changelogs, saver>>

(* the timeframe question: the named timeframes, the days since the last
   changelog unless that choice is disabled, or 'custom' *)
PromptTimeframe ==
  /\ prompt.pc = "timeframe"
  /\ \/ \E timeframe \in Presets \cup (IF prompt.suggestedTimeframe <= 0 THEN {}
                                       ELSE {prompt.suggestedTimeframe}) :
          prompt' = [prompt EXCEPT !.pc = "generate", !.days = timeframe]
     \/ prompt' = [prompt EXCEPT !.pc = "customDays"]
  /\ ret' = [op |-> "timeframe"]
  /\ UNCHANGED <<file, now, lastCall, genVars, forge, run, changelogs, saver>>

(* the customDays question: an answer that validate refuses is asked again *)
PromptCustomDays ==
  /\ prompt.pc = "customDays"
  /\ \E input \in DayInputs :
       /\ prompt' = IF ValidateCustomDays(input)
                    THEN [prompt EXCEPT !.pc = "generate", !.days = ParseInt(input).value]
                    ELSE prompt
       /\ ret' = [op |-> "customDays", input |-> input,
                  accepted |-> ValidateCustomDays(input)]
  /\ UNCHANGED <<file, now, lastCall, genVars, forge, run, changelogs, saver>>

(* generateChangelog(repoUrl, days, format): fetchCommits forms the address
   and sends its request *)
PromptFetch ==
  /\ prompt.pc = "generate"
  /\ prompt' = [prompt EXCEPT !.pc = "done",
                              !.requests = Append(@, ApiUrl(prompt.repoUrl))]
  /\ ret' = [op |-> "fetchCommits", since |-> DaysBefore(now, prompt.days)]
  /\ UNCHANGED <<file, now, lastCall, genVars, forge, run, changelogs, saver>>

NextPrompt ==
  \/ PromptRepo
  \/ PromptCustomRepo
  \/ PromptHistory
  \/ PromptTimeframe
  \/ PromptCustomDays
  \/ PromptFetch

SpecPrompt == InitPrompt /\ [][NextPrompt]_vars

(***************************************************************************)
(* Properties of the store.                                                *)
(***************************************************************************)
Repositories == readDB(file).repositories
History == readDB(file).history

RecordsOf(u) == {i \in 1..Len(Repositories) : Repositories[i].url = u}
EntriesOf(u) == {i \in 1..Len(History) : History[i].repoUrl = u}

(* C1: after any number of saveChangelogGeneration calls from the empty store,
   every URL that was recorded has exactly one RepositoryRecord, whose
   lastUsed is the clock of the latest call for that URL, and a URL never
   recorded has none. *)
C1_OneRecordPerUrl ==
  \A u \in URLs :
    IF lastCall[u] = -1
    THEN RecordsOf(u) = {}
    ELSE /\ Cardinality(RecordsOf(u)) = 1
         /\ \A i \in RecordsOf(u) : Repositories[i].lastUsed = lastCall[u]

(* a URL recorded by two calls at different clocks *)
C1_Witness ==
  \E u \in URLs :
    /\ \E i, j \in EntriesOf(u) : History[i].generatedAt < History[j].generatedAt
    /\ lastCall[u] > 0
    /\ Cardinality(RecordsOf(u)) = 1

(* C3: getDaysSinceLastChangelog returns null for a URL without entries, and
   otherwise the endDate (as lastDate) and lastCommitHash of an entry of that
   URL whose generatedAt is the maximum among the URL's entries. *)
C3_LastRunIsNewest ==
  ret.op = "getDaysSinceLastChangelog" =>
    IF EntriesOf(ret.url) = {}
    THEN ret.value = NullInfo
    ELSE /\ ret.value # NullInfo
         /\ \E i \in EntriesOf(ret.url) :
              /\ \A j \in EntriesOf(ret.url) :
                   History[j].generatedAt <= History[i].generatedAt
              /\ ret.value.lastDate = History[i].endDate
              /\ ret.value.lastCommitHash = History[i].lastCommitHash

(* the query answered for a URL with entries of different ages and contents *)
C3_Witness ==
  /\ ret.op = "getDaysSinceLastChangelog"
  /\ \E i, j \in EntriesOf(ret.url) :
       /\ History[i].generatedAt < History[j].generatedAt
       /\ History[i].endDate # History[j].endDate
       /\ History[i].lastCommitHash # History[j].lastCommitHash

(* the number of occurrences of entry e in the history h *)
Occurrences(h, e) == Cardinality({i \in 1..Len(h) : h[i] = e})

(* every entry readDB returns before the step is returned after it, unchanged *)
HistoryPreserved ==
  \A i \in 1..Len(readDB(file).history) :
    Occurrences(readDB(file').history, readDB(file).history[i])
      >= Occurrences(readDB(file).history, readDB(file).history[i])

Done == gen.pc = "done"
FetchedCommits == gen.fetched.kind = "ok" /\ gen.fetched.data # <<>>
IsDocument(d) == d # NullInfo /\ DOMAIN d = {"content", "title"}

(* what the same call returns with useAI = false, for the same fetch *)
StandardResult ==
  Render(AfterFetch(GenCall(gen.repoUrl, gen.days, gen.format, FALSE), gen.fetched, now)).result

(* C6: a fetch of zero commits ends the call with the "No commits found"
   document, whatever the layout and useAI, and neither the rewriter (nor the
   model behind it) nor a layout has been invoked *)
C6_NoCommitsShortCircuit ==
  (gen.fetched.kind = "ok" /\ gen.fetched.data = <<>>) =>
    /\ Done
    /\ gen.result = [content |-> <<"No commits found for the specified period.">>,
                     title   |-> <<"No Changes">>]
    /\ ~gen.ai.called
    /\ log.rewriter = 0 /\ log.llm = 0 /\ log.renderer = 0

C6_Witness ==
  /\ Done /\ gen.fetched.kind = "ok" /\ gen.fetched.data = <<>>
  /\ gen.useAI /\ gen.format = "external" /\ HasApiKey(env)

(* C7: when the rewriter returned null or failed, the call with useAI = true
   returns what the call with useAI = false returns for the same commits,
   layout and date range: the layout's output under "<repoName> Changelog" *)
C7_NullIsDisabled ==
  (Done /\ FetchedCommits /\ gen.useAI /\ (gen.ai.threw \/ gen.ai.value = NullInfo)) =>
    /\ gen.result = StandardResult
    /\ IsArray(gen.fetched.data) =>
         /\ gen.result.title = RepoNameOf(gen.repoUrl) \o <<" Changelog">>
         /\ gen.result.content =
              IF gen.format = "external"
              THEN generateExternalChangelog(RepoNameOf(gen.repoUrl), gen.fetched.data, gen.dateRange)
              ELSE generateInternalChangelog(RepoNameOf(gen.repoUrl), gen.fetched.data, gen.dateRange)

C7_Witness ==
  /\ Done /\ FetchedCommits /\ gen.useAI /\ IsArray(gen.fetched.data)
  /\ gen.llm.kind = "empty content" /\ gen.ai = Returned(NullInfo)
  /\ gen.result.title = <<"b", " Changelog">>

(* C8: given a list of commits, enhanceChangelog does not throw: a request
   error, an HTTP 429 and an empty response each end in a null return *)
C8_RewriterNeverThrows ==
  (gen.ai.called /\ IsArray(gen.fetched.data)) =>
    /\ ~gen.ai.threw
    /\ gen.llm.kind \in {"error", "429", "no response", "empty content"} =>
         gen.ai.value = NullInfo

C8_Witness ==
  /\ gen.ai.called /\ IsArray(gen.fetched.data) /\ Len(gen.fetched.data) = MaxCommits
  /\ gen.llm.kind = "429" /\ gen.ai = Returned(NullInfo)

(* C9: with no key in the environment and none in the key file, the rewriter
   returns null and the model has not been called *)
C9_NoKeyNoRequest ==
  (gen.ai.called /\ ~HasApiKey(env)) =>
    /\ gen.ai = Returned(NullInfo)
    /\ gen.llm.kind = "none"
    /\ log.llm = 0

C9_Witness ==
  /\ Done /\ gen.ai.called /\ log.rewriter = 1
  /\ ~env.apiKeyEnv /\ env.keyFile = "absent"

(* C10: generateChangelog does not throw; whatever the fetch, the rewriter
   and the layout did, it ends with a {content, title} document, which is the
   "Error generating changelog: <message>" placeholder when one of them failed
   uncaught *)
C10_AlwaysADocument ==
  /\ ~gen.threw
  /\ Done =>
       /\ IsDocument(gen.result)
       /\ gen.fetched.kind # "ok" =>
            gen.result = [content |-> <<"Error generating changelog: ">> \o FetchErrorMessage(gen.fetched),
                          title   |-> <<"Error">>]
       /\ (gen.fetched.kind = "ok" /\ ~IsArray(gen.fetched.data)) =>
            /\ gen.result.title = <<"Error">>
            /\ StartsWith(gen.result.content, <<"Error generating changelog: ">>)

C10_Witness ==
  /\ Done /\ gen.fetched.kind = "no response"
  /\ gen.result.title = <<"Error">>


(***************************************************************************)
(* Properties of a run.                                                    *)
(***************************************************************************)
(* C4: the entry a run has written carries the hash of the newest commit the
   run has seen, or null when it has seen none *)
C4_HashIsNewestObserved ==
  ret.op = "run" =>
    /\ \E i \in 1..Len(History) : History[i] = ret.entry
    /\ ret.entry.lastCommitHash =
         IF ret.observed = <<>> THEN Null ELSE ret.observed[1].sha

(* C5: once a run for a repository has completed while the forge listed a
   commit of it, a later run for that repository that reaches the forge has
   a count of new commits that is not null *)
C5_BaselineSupplied ==
  ( /\ run.pc = "generate"
    /\ run.forgeUp
    /\ \E i \in EntriesOf(run.repoUrl) : ForgeAt(run.repoUrl, History[i].generatedAt) # <<>> )
  => /\ run.newCommitsInfo # NullInfo
     /\ run.newCommitsInfo.newCommits # NullInfo


(* C11: a commit fetch that failed is not repeated, and the run ends there: it
   does not go on to the editor, the publication or the HistoryEntry *)
C11_FetchFailureEndsRun ==
  gen.fetched.kind \in {"status", "no response", "other"}
    => (log.fetch = 1 /\ run.steps = <<"read", "fetch">>)

RunOrder == <<"read", "fetch", "edit", "publish", "write">>

(* C12: the steps of a run happen one after the other in the order history
   read, fetch, rewriting or layout, editor, publication, store write: the
   rewriter and the layouts start only once the fetch has answered, the
   editor and what follows only once generateChangelog has returned, and the
   store file changes only in the write that follows the publication *)
C12_StepsInOrder ==
  /\ [](/\ run.steps = SubSeq(RunOrder, 1, Len(run.steps))
        /\ (log.rewriter > 0 \/ log.renderer > 0 \/ gen.ai.called) =>
             (gen.fetched.kind = "ok" /\ Len(run.steps) >= 2)
        /\ gen.pc \in {"enhance", "request", "enhanced", "render"} =>
             run.steps = <<"read", "fetch">>
        /\ (Len(run.steps) >= 3 /\ run.pc # "idle") => gen.pc = "done")
  /\ [][file' # file =>
          (run.steps = <<"read", "fetch", "edit", "publish">> /\ run'.steps = RunOrder)]_vars

C12_Witness ==
  /\ run.steps = RunOrder
  /\ ret.op = "run" /\ ret.published = "ok"
  /\ Len(History) = 1


(***************************************************************************)
(* Properties of the classifier and the layouts, read off the document     *)
(* that generateChangelog returned.                                        *)
(***************************************************************************)
(* the call has returned what a layout produced from a list of commits *)
Rendered == Done /\ log.renderer = 1 /\ gen.fetched.kind = "ok" /\ IsArray(gen.fetched.data)

Lines(content) == Split(content, "\n")

(* the texts of the "## " lines of a document, in order *)
Headings(content) ==
  LET IsHeading(l) == l # <<>> /\ Head(l) = "## "
      found == SelectSeq(Lines(content), IsHeading)
  IN  [i \in 1..Len(found) |-> Tail(found[i])]

(* the lines listed under a heading: those between the empty line after it
   and the next empty line *)
EntriesUnder(content, heading) ==
  LET ls == Lines(content)
      at == {i \in 1..Len(ls) : ls[i] = <<"## ">> \o heading}
  IN  UNION { { ls[i] : i \in { n \in (h + 2)..Len(ls) : \A j \in (h + 2)..n : ls[j] # <<>> } }
              : h \in at }

LowerCasedType(commit) ==
  IF MatchType(commit.message) # <<>>
  THEN ToLowerCase(MatchType(commit.message))
  ELSE <<"o", "t", "h", "e", "r">>

(* C18: the type of a commit is capture group 1 of its prefix in lower case,
   or "other"; the internal layout has one section per such type, so prefixes
   that differ only in letter case share a section *)
C18_TypeIsLowerCased ==
  (gen.fetched.kind = "ok" /\ IsArray(gen.fetched.data)) =>
    /\ \A i \in 1..Len(gen.fetched.data) :
         TypeOf(gen.fetched.data[i]) = LowerCasedType(gen.fetched.data[i])
    /\ (Rendered /\ gen.format = "internal") =>
         Len(Headings(gen.result.content)) =
           Cardinality({LowerCasedType(gen.fetched.data[i]) : i \in 1..Len(gen.fetched.data)})

(* keyword and heading of the four sections of the external layout, in the
   order of the document *)
ExternalSections ==
  << [keyword |-> <<"f", "e", "a", "t">>,
      heading |-> <<"(sparkles)", " ", "New Features">>],
     [keyword |-> <<"b", "r", "e", "a", "k", "i", "n", "g">>,
      heading |-> <<"(warning)", " ", "Breaking Changes">>],
     [keyword |-> <<"f", "i", "x">>,
      heading |-> <<"(bug)", " ", "Bug Fixes">>],
     [keyword |-> <<"p", "e", "r", "f">>,
      heading |-> <<"(zap)", " ", "Performance Improvements">>] >>

LowerStartsWith(commit, keyword) == StartsWith(ToLowerCase(commit.message), keyword)

(* C19: in the external layout a commit is listed under a section exactly
   when its message in lower case starts with the keyword of the section; a
   commit that starts with none of the four has no line in the document *)
C19_ExternalBuckets ==
  (Rendered /\ gen.format = "external") =>
    LET commits == gen.fetched.data
        content == gen.result.content
    IN  /\ \A i \in 1..Len(commits), b \in 1..Len(ExternalSections) :
             (<<"- ">> \o StripPrefix(commits[i].message, ExternalSections[b].keyword)
                \in EntriesUnder(content, ExternalSections[b].heading))
             <=> LowerStartsWith(commits[i], ExternalSections[b].keyword)
        /\ Cardinality({i \in 1..Len(Lines(content)) :
                           StartsWith(Lines(content)[i], <<"- ">>)}) =
             Cardinality({i \in 1..Len(commits) :
                            \E b \in 1..Len(ExternalSections) :
                              LowerStartsWith(commits[i], ExternalSections[b].keyword)})

C19_Witness ==
  /\ Rendered /\ gen.format = "external"
  /\ \E i, j \in 1..Len(gen.fetched.data) :
       /\ gen.fetched.data[i].message = <<"F", "e", "a", "t", ":", " ", "c">>
       /\ gen.fetched.data[j].message = <<"w", "i", "p">>
  /\ <<"- ", "c">> \in EntriesUnder(gen.result.content, <<"(sparkles)", " ", "New Features">>)

(* the headings of the sections whose keyword starts some commit, in order *)
HeadingsFor(sections, commits) ==
  LET NonEmpty(x) == \E i \in 1..Len(commits) : LowerStartsWith(commits[i], x.keyword)
      present == SelectSeq(sections, NonEmpty)
  IN  [i \in 1..Len(present) |-> present[i].heading]

(* C20 as stated: the sections are Added, Breaking Changes, Bug Fixes and
   Performance, in that order, each present exactly when its bucket holds a
   commit *)
C20_SpecifiedSections ==
  (Rendered /\ gen.format = "external") =>
    Headings(gen.result.content) =
      HeadingsFor(<< [keyword |-> <<"f", "e", "a", "t">>, heading |-> <<"Added">>],
                     [keyword |-> <<"b", "r", "e", "a", "k", "i", "n", "g">>,
                      heading |-> <<"Breaking Changes">>],
                     [keyword |-> <<"f", "i", "x">>, heading |-> <<"Bug Fixes">>],
                     [keyword |-> <<"p", "e", "r", "f">>, heading |-> <<"Performance">>] >>,
                  gen.fetched.data)

(* C20: the external layout has at most the four sections New Features,
   Breaking Changes, Bug Fixes and Performance Improvements, in that order,
   each present exactly when its bucket holds a commit *)
C20_SectionsInOrder ==
  (Rendered /\ gen.format = "external") =>
    Headings(gen.result.content) = HeadingsFor(ExternalSections, gen.fetched.data)

C20_Witness ==
  /\ Rendered /\ gen.format = "external"
  /\ Headings(gen.result.content) =
       << <<"(warning)", " ", "Breaking Changes">>, <<"(bug)", " ", "Bug Fixes">> >>


(***************************************************************************)
(* Properties of the store over a damaged file.                            *)
(***************************************************************************)
(* C13: readDB does not throw, and returns the empty store whenever the file
   is missing, unparseable or lacks one of the two arrays; once setup has
   run, the file holds both arrays *)
C13_DamagedReadsEmpty ==
  /\ ret.op = "readDB" =>
       /\ ~ret.threw
       /\ NeedsInitialization(file) => ret.value = [repositories |-> <<>>, history |-> <<>>]
  /\ ret.op = "setup" => ~NeedsInitialization(file)

(* C14: no store operation throws, whatever the file holds *)
C14_StoreNeverThrows ==
  ret.op \in {"saveRepository", "saveChangelogGeneration", "getDaysSinceLastChangelog",
              "getRecentRepositories", "getChangelogHistory"}
    => ~ret.threw


(***************************************************************************)
(* Properties of getNewCommitsSinceLastChangelog.                          *)
(***************************************************************************)
(* the hash of the newest entry of a URL, Null when there is none *)
PriorHash(u) ==
  IF getDaysSinceLastChangelog(file, u, now) = NullInfo THEN Null
  ELSE getDaysSinceLastChangelog(file, u, now).lastCommitHash

(* C16: newCommits is the number of fetched commits ahead of the first one
   whose hash starts with the recorded hash, the number of all fetched
   commits when none does, and null, not zero, when no hash is recorded *)
C16_NewCommitsCount ==
  ret.op = "getNewCommitsSinceLastChangelog" =>
    LET h == PriorHash(ret.url)
        commits == ret.outcome.data
        Matches(i) == StartsWith(commits[i].sha, h)
    IN  /\ h = Null => ret.value.newCommits = [null |-> TRUE]
        /\ (h # Null /\ ret.outcome.kind = "ok" /\ IsArray(commits) /\ commits # <<>>) =>
             /\ \A i \in 1..Len(commits) :
                  (Matches(i) /\ \A j \in 1..(i - 1) : ~Matches(j)) =>
                    ret.value.newCommits = [count |-> i - 1]
             /\ (\A i \in 1..Len(commits) : ~Matches(i)) =>
                  ret.value.newCommits = [count |-> Len(commits)]

C16_Witness ==
  /\ ret.op = "getNewCommitsSinceLastChangelog"
  /\ PriorHash(ret.url) = <<"d", "e", "f">>
  /\ ret.outcome.kind = "ok"
  /\ ret.value.newCommits = [count |-> 1]

(***************************************************************************)
(* Days since the last run, as run reads it                                *)
(***************************************************************************)
(* the generatedAt stamps of the saved runs of repository u *)
StampsOf(f, u) ==
  {readDB(f).history[i].generatedAt :
     i \in {j \in 1..Len(readDB(f).history) : readDB(f).history[j].repoUrl = u}}

(* C17: the days since the last run of a repository are the ceiling of the
   time from the generatedAt of its newest saved run to now, in days; a
   repository with no saved run reads null, and run tells null (no
   suggestion, no question to the forge) from zero days (a suggestion of 0
   and a question to the forge).  The step is the one of run that reads the
   history; n is the ceiling of ms when n days cover ms and n - 1 do not *)
C17_DaysSinceLastRun ==
  [][(run.pc = "idle" /\ run'.pc = "generate") =>
       LET u     == run'.repoUrl
           info  == ret'.lastChangelogInfo
           stamps == StampsOf(file', u)
           newest == CHOOSE g \in stamps : \A h \in stamps : h <= g
       IN  /\ (stamps = {}) <=> (info = NullInfo)
           /\ stamps = {} => /\ ret'.suggestedTimeframe = 1
                             /\ run'.newCommitsInfo = NullInfo
           /\ stamps # {} => /\ info.days * DayTicks >= now - newest
                             /\ (info.days - 1) * DayTicks < now - newest
                             /\ ret'.suggestedTimeframe = info.days
                             /\ run'.newCommitsInfo # NullInfo]_vars

(* a run started within a day, but not at the instant, of the last saved run
   of its repository: half a day reads as one day *)
C17_Witness ==
  /\ ret.op = "run started"
  /\ ret.lastChangelogInfo # NullInfo
  /\ ret.lastChangelogInfo.days = 1
  /\ StampsOf(file, run.repoUrl) = {now - 1}

(***************************************************************************)
(* The answers of a run and the requests sent for them                     *)
(***************************************************************************)
(* the URL splits into an owner and a name, neither empty *)
Parseable(repoUrl) ==
  /\ Len(UrlParts(repoUrl)) >= 2
  /\ UrlParts(repoUrl)[Len(UrlParts(repoUrl))] # <<>>
  /\ UrlParts(repoUrl)[Len(UrlParts(repoUrl)) - 1] # <<>>

(* C15: a run whose repository URL does not split into an owner and a name,
   or whose day count is not positive, sends no request: whichever way the
   URL and the days were answered, the list of requests stays empty *)
C15_BadInputSendsNoRequest ==
  ( \/ /\ prompt.pc \in {"history", "timeframe", "customDays", "generate", "done"}
       /\ ~Parseable(prompt.repoUrl)
    \/ /\ prompt.pc \in {"generate", "done"}
       /\ prompt.days <= 0 )
    => prompt.requests = <<>>

(***************************************************************************)
(* Properties of the layouts over the wider pool of messages.              *)
(***************************************************************************)
(* C21: in the external layout the entry of a commit is its message without
   its conventional-commit prefix, type(scope): or type: and the white space
   after it, and no entry under a heading begins, in whatever letter case,
   with the keyword of that section followed by an optional scope and a colon *)
C21_PrefixStripped ==
  (Rendered /\ gen.format = "external") =>
    \A b \in 1..Len(ExternalSections) :
      /\ \A i \in 1..Len(gen.fetched.data) :
           LowerStartsWith(gen.fetched.data[i], ExternalSections[b].keyword) =>
             LET m == gen.fetched.data[i].message
                 w == PrefixLen(m, WordChars)
                 n == ScopeColonLen(Substring(m, w))
                 stripped == IF w >= 1 /\ n > 0 THEN SkipSpaces(Substring(m, w + n)) ELSE m
             IN  <<"- ">> \o stripped
                   \in EntriesUnder(gen.result.content, ExternalSections[b].heading)
      /\ \A line \in EntriesUnder(gen.result.content, ExternalSections[b].heading) :
           ~ /\ StartsWith(ToLowerCase(Tail(line)), ExternalSections[b].keyword)
             /\ ScopeColonLen(Substring(Tail(line), Len(ExternalSections[b].keyword))) > 0

(* s.includes(piece) *)
Contains(s, piece) ==
  \E k \in 1..(Len(s) - Len(piece) + 1) : SubSeq(s, k, k + Len(piece) - 1) = piece

(* C22 as stated: the external layout contains the short hash of no input
   commit, and no list line of it contains the author of an input commit *)
C22_NoHashNoAuthor ==
  (Rendered /\ gen.format = "external") =>
    \A i \in 1..Len(gen.fetched.data) :
      /\ ~Contains(gen.result.content, ShortHash(gen.fetched.data[i].sha))
      /\ \A l \in 1..Len(Lines(gen.result.content)) :
           StartsWith(Lines(gen.result.content)[l], <<"- ">>) =>
             ~Contains(Lines(gen.result.content)[l], gen.fetched.data[i].author)

(* C22: the external layout adds no hash and no author of its own: the short
   hash of an input commit occurs in it only where the message of a listed
   commit contains that hash, and no list line contains the author of an
   input commit *)
C22_NoHashBeyondMessages ==
  (Rendered /\ gen.format = "external") =>
    \A i \in 1..Len(gen.fetched.data) :
      /\ Contains(gen.result.content, ShortHash(gen.fetched.data[i].sha)) =>
           \E j \in 1..Len(gen.fetched.data), b \in 1..Len(ExternalSections) :
             /\ LowerStartsWith(gen.fetched.data[j], ExternalSections[b].keyword)
             /\ Contains(gen.fetched.data[j].message, ShortHash(gen.fetched.data[i].sha))
      /\ \A l \in 1..Len(Lines(gen.result.content)) :
           StartsWith(Lines(gen.result.content)[l], <<"- ">>) =>
             ~Contains(Lines(gen.result.content)[l], gen.fetched.data[i].author)

(* two commits are listed, the second quoting the hash of the first *)
C22_Witness ==
  /\ Rendered /\ gen.format = "external"
  /\ Len(gen.fetched.data) = 2
  /\ Contains(gen.result.content, ShortHash(gen.fetched.data[1].sha))
  /\ ~Contains(gen.result.content, ShortHash(gen.fetched.data[2].sha))
  /\ <<"- ", "a">> \in EntriesUnder(gen.result.content, <<"(sparkles)", " ", "New Features">>)

(* C23: the internal layout has exactly one list line per input commit, the
   line of a commit starting with the first seven characters of its hash,
   and one section per distinct type, in the order in which the types first
   occur in the input *)
C23_OneEntryPerCommit ==
  (Rendered /\ gen.format = "internal") =>
    LET commits == gen.fetched.data
        ls == Lines(gen.result.content)
        types == TypesFrom(commits, <<>>)
    IN  /\ Cardinality({l \in 1..Len(ls) : StartsWith(ls[l], <<"- **">>)}) = Len(commits)
        /\ \A i \in 1..Len(commits) :
             \E l \in 1..Len(ls) :
               StartsWith(ls[l], <<"- **">> \o SubSeq(commits[i].sha, 1, ShortSha) \o <<"** ">>)
        /\ Headings(gen.result.content) = [i \in 1..Len(types) |-> formatCommitType(types[i])]

(* C29: in the external layout no commit is in two buckets, the number of
   list lines is the number of commits whose message in lower case starts
   with feat, fix, perf or breaking, and the lines under a heading are those
   of the commits of its bucket in the order of the input *)
C29_ListedOnceInOrder ==
  (Rendered /\ gen.format = "external") =>
    LET commits == gen.fetched.data
        ls == Lines(gen.result.content)
        In(b) == {i \in 1..Len(commits) : LowerStartsWith(commits[i], ExternalSections[b].keyword)}
        At(b) == {h \in 1..Len(ls) : ls[h] = <<"## ">> \o ExternalSections[b].heading}
    IN  /\ \A i \in 1..Len(commits) :
             Cardinality({b \in 1..Len(ExternalSections) : i \in In(b)}) <= 1
        /\ Cardinality({l \in 1..Len(ls) : StartsWith(ls[l], <<"- ">>)}) =
             Cardinality(UNION {In(b) : b \in 1..Len(ExternalSections)})
        /\ \A b \in 1..Len(ExternalSections) :
             /\ Cardinality(At(b)) = IF In(b) = {} THEN 0 ELSE 1
             /\ \A h \in At(b), i \in In(b) :
                  ls[h + 1 + Cardinality({k \in In(b) : k <= i})] =
                    <<"- ">> \o StripPrefix(commits[i].message, ExternalSections[b].keyword)
             /\ \A h \in At(b) : ls[h + 2 + Cardinality(In(b))] = <<>>

(* two features, the later of the input listed second *)
C29_Witness ==
  /\ Rendered /\ gen.format = "external"
  /\ Len(gen.fetched.data) = 2
  /\ gen.fetched.data[1].message = <<"F", "e", "a", "t", ":", " ", "c">>
  /\ gen.fetched.data[2].message = <<"f", "e", "a", "t", ":", " ", "a">>
  /\ \E h \in 1..Len(Lines(gen.result.content)) :
       /\ Lines(gen.result.content)[h + 2] = <<"- ", "c">>
       /\ Lines(gen.result.content)[h + 3] = <<"- ", "a">>

(***************************************************************************)
(* Properties of the rewriter's answer                                     *)
(***************************************************************************)
(* C24: the rewriter returns the text of the first content block unchanged
   as content; its title comes from the first line of that text that starts
   with "# ": what follows the marker, without the whitespace around it and
   without one trailing " - Changelog", is the title; a text with no such
   line gets the title "Changelog" *)
C24_TitleFromFirstHeading ==
  (gen.ai.called /\ ~gen.ai.threw /\ gen.ai.value # NullInfo) =>
    LET text     == gen.llm.text
        title    == gen.ai.value.title
        lines    == Split(text, "\n")
        headings == { i \in 1..Len(lines) : StartsWith(lines[i], <<"#", " ">>) }
        suffix   == <<" ", "-", " ", "C", "h", "a", "n", "g", "e", "l", "o", "g">>
    IN  /\ gen.llm.kind = "text"
        /\ gen.ai.value.content = text
        /\ headings = {} => title = <<"Changelog">>
        /\ headings # {} =>
             LET first == CHOOSE i \in headings : \A j \in headings : i <= j
                 rest  == Trim(SubSeq(lines[first], 3, Len(lines[first])))
             IN  \/ rest = title \o suffix
                 \/ rest = title /\ ~EndsWith(rest, suffix)

C24_Witness ==
  /\ gen.ai.called /\ ~gen.ai.threw /\ gen.ai.value # NullInfo
  /\ Len(Split(gen.llm.text, "\n")) = 2
  /\ \A i \in 1..2 : StartsWith(Split(gen.llm.text, "\n")[i], <<"#", " ">>)
  /\ gen.ai.value.title = <<"B">>


(***************************************************************************)
(* Properties of the two listings of the store                             *)
(***************************************************************************)
(* C25: getRecentRepositories(limit) returns the records of the file, newest
   lastUsed first, cut to limit records (5 when no limit is passed), for
   every content of the file and every limit >= 0; getChangelogHistory(url,
   limit) returns the entries of that URL only, newest generatedAt first,
   cut to limit entries (10 when no limit is passed).
   A listing is the newest min(limit, n) of the n candidates: each listed
   item is one of them, taken once, in descending order of its stamp, and no
   candidate left out is newer than a listed one *)
C25_ListingsSortedAndCut ==
  LET IsListing(value, items, stamps, limit) ==
        /\ Len(value) = (IF limit < Len(items) THEN limit ELSE Len(items))
        /\ \A i, j \in 1..Len(value) : i < j => stamps[value[i]] >= stamps[value[j]]
        /\ \E p \in [1..Len(value) -> 1..Len(items)] :
             /\ \A i, j \in 1..Len(value) : i # j => p[i] # p[j]
             /\ \A i \in 1..Len(value) : value[i] = items[p[i]]
             /\ \A k \in 1..Len(items) :
                  (\A i \in 1..Len(value) : p[i] # k) =>
                    \A i \in 1..Len(value) : stamps[items[k]] <= stamps[value[i]]
      records == IF file.kind = "json" /\ file.repositories # NotArray
                 THEN file.repositories ELSE <<>>
      entries == IF file.kind = "json" /\ file.history # NotArray
                 THEN file.history ELSE <<>>
      OfUrl(e) == e.repoUrl = ret.url
  IN  /\ ret.op = "getRecentRepositories" =>
           /\ ret.limit = (IF ret.args = <<>> THEN 5 ELSE ret.args[1])
           /\ IsListing(ret.value, records,
                        [r \in {records[i] : i \in 1..Len(records)} |-> r.lastUsed], ret.limit)
      /\ ret.op = "getChangelogHistory" =>
           /\ ret.limit = (IF ret.args = <<>> THEN 10 ELSE ret.args[1])
           /\ \A i \in 1..Len(ret.value) : ret.value[i].repoUrl = ret.url
           /\ IsListing(ret.value, SelectSeq(entries, OfUrl),
                        [e \in {entries[i] : i \in 1..Len(entries)} |-> e.generatedAt], ret.limit)

C25_Witness ==
  /\ ret.op = "getChangelogHistory" /\ ret.args = <<1>>
  /\ file.kind = "json" /\ file.history # NotArray /\ Len(file.history) = 2
  /\ \A i \in 1..2 : file.history[i].repoUrl = ret.url
  /\ file.history[1].generatedAt < file.history[2].generatedAt
  /\ ret.value = <<file.history[2]>>


(***************************************************************************)
(* The records saveChangelogGeneration leaves alone                        *)
(***************************************************************************)
(* C30: saveChangelogGeneration for a URL keeps every record of another URL
   as it was (url, name, lastUsed), and when the URL has a record already,
   that record changes in lastUsed only: url and name stay, whatever
   repoName was passed, and no record is added *)
C30_OtherRecordsKept ==
  [][(ret'.op = "saveChangelogGeneration" /\ ~ret'.threw /\ file' # file) =>
       LET old   == readDB(file).repositories
           new   == readDB(file').repositories
           A     == ret'.url
           Other == { r \in {old[i] : i \in 1..Len(old)} \cup {new[i] : i \in 1..Len(new)} :
                      r.url # A }
           k     == FindIndexByUrl(old, A)
       IN  /\ \A r \in Other : Occurrences(new, r) = Occurrences(old, r)
           /\ k # -1 =>
                /\ Len(new) = Len(old)
                /\ \E t \in 0..MaxTime :
                     \A i \in 1..Len(new) :
                       Occurrences(new, new[i]) =
                         Occurrences([old EXCEPT ![k].lastUsed = t], new[i])]_vars

C30_Witness ==
  /\ ret.op = "saveChangelogGeneration" /\ ~ret.threw
  /\ Len(Repositories) = 2
  /\ \E i, j \in 1..2 :
       /\ Repositories[i].url = ret.url /\ Repositories[i].name # ret.repoName
       /\ Repositories[j].url # ret.url /\ Repositories[j].lastUsed < Repositories[i].lastUsed


(***************************************************************************)
(* What one run leaves in the store                                        *)
(***************************************************************************)
(* C28: a run that has reached generateChangelog ends in the write, whether
   the user declined to publish, the publication succeeded or it failed; the
   write appends exactly one entry, that of the repository chosen, and
   changes the record of that repository and no other; no other step of
   the run changes the file *)
C28_OneEntryPerRun ==
  /\ [][(run.pc # "idle" /\ run'.pc = "idle") =>
          /\ run.published \in {"declined", "ok", "failed"}
          /\ run'.steps = RunOrder
          /\ ret'.entry.repoUrl = run.repoUrl
          /\ Len(History') = Len(History) + 1
          /\ \A i \in 1..Len(History') :
               Occurrences(History', History'[i]) =
                 Occurrences(History, History'[i])
                   + (IF History'[i] = ret'.entry THEN 1 ELSE 0)
          /\ Cardinality({i \in 1..Len(Repositories') :
                            Repositories'[i].url = run.repoUrl}) = 1
          /\ \A i \in 1..Len(Repositories') :
               Repositories'[i].url # run.repoUrl =>
                 \E j \in 1..Len(Repositories) : Repositories[j] = Repositories'[i]
          /\ \A j \in 1..Len(Repositories) :
               Repositories[j].url # run.repoUrl =>
                 \E i \in 1..Len(Repositories') : Repositories'[i] = Repositories[j]]_vars
  /\ [][(file' # file) => (run.pc = "save" /\ run'.pc = "idle")]_vars

C28_Witness ==
  /\ ret.op = "run" /\ ret.published = "failed"
  /\ run.steps = RunOrder
  /\ Len(History) = 2 /\ Len(Repositories) = 2
  /\ \E i \in 1..2 : Repositories[i].url # ret.entry.repoUrl
                        /\ Repositories[i].lastUsed < ret.entry.generatedAt


(***************************************************************************)
(* Properties of the publishing server                                     *)
(***************************************************************************)
(* C27: POST /api/changelogs with a title and a content answers 201 and puts
   the new changelog, which carries that title and content, at the head of
   the list that GET /api/changelogs returns; without a title or without a
   content it answers 400 and the list stays as it was *)
C27_PostAnswers ==
  /\ [][(ret'.op = "POST" /\ now' = now) =>
          IF ~Falsy(ret'.request.title) /\ ~Falsy(ret'.request.content)
          THEN /\ ret'.status = 201
               /\ ret'.body.title = ret'.request.title
               /\ ret'.body.content = ret'.request.content
               /\ changelogs' = <<ret'.body>> \o changelogs
          ELSE /\ ret'.status = 400
               /\ changelogs' = changelogs]_vars
  /\ [][(ret'.op = "GET" /\ now' = now) =>
          (ret'.status = 200 /\ ret'.body = changelogs /\ changelogs' = changelogs)]_vars

C27_Witness ==
  /\ ret.op = "POST" /\ ret.status = 400
  /\ ret.request.title # Missing /\ ret.request.content = <<>>
  /\ Len(changelogs) = 2
  /\ changelogs[1].id = ToString(now) /\ changelogs[2].id # ToString(now)


(***************************************************************************)
(* Properties of two processes that save at once                           *)
(***************************************************************************)
(* C26: with the reads and writes of two saveChangelogGeneration calls
   interleaved, the last writer wins: after a write the file holds the
   document of that write, whole, which is what the writer read plus its
   own change; so an entry or a record that the other process wrote after
   the writer's read and before its write is not in the file any more *)
C26_LastWriterWins ==
  /\ [](ret.op = "writeDB" =>
          (file.kind = "json" /\ file.repositories = ret.document.repositories
                              /\ file.history = ret.document.history))
  /\ [][\A p \in DOMAIN saver :
          LET seen == readDB(saver[p].seen)
              InBetweenEntries ==
                { i \in 1..Len(History) :
                    Occurrences(History, History[i]) > Occurrences(seen.history, History[i]) }
              InBetweenRecords ==
                { i \in 1..Len(Repositories) :
                    \A j \in 1..Len(seen.repositories) :
                      seen.repositories[j] # Repositories[i] }
          IN  /\ (saver[p].pc = "histWrite" /\ saver'[p].pc = "done") =>
                   /\ Len(History') = Len(seen.history) + 1
                   /\ \A i \in 1..Len(seen.history) :
                        Occurrences(History', seen.history[i]) >=
                          Occurrences(seen.history, seen.history[i])
                   /\ \A i \in InBetweenEntries :
                        Occurrences(History', History[i]) <= Occurrences(seen.history, History[i]) + 1
                   /\ Repositories' = seen.repositories
              /\ (saver[p].pc = "repoWrite" /\ saver'[p].pc = "histRead") =>
                   /\ History' = seen.history
                   /\ \A i \in InBetweenRecords :
                        Repositories[i].url # saver[p].url =>
                          \A j \in 1..Len(Repositories') : Repositories'[j] # Repositories[i]]_vars

(* both calls have returned, for two URLs, and the file holds the entry of
   one of them only *)
C26_Witness ==
  /\ \A p \in DOMAIN saver : saver[p].pc = "done"
  /\ saver[1].url # saver[2].url
  /\ ret.op = "writeDB"
  /\ Len(History) = 1 /\ History[1].repoUrl = saver[ret.by].url
  /\ Len(Repositories) = 1


====
